---------------------------- MODULE Spec2Model ----------------------------
(***************************************************************************)
(* Model of pygolang channels (golang/_golang.pyx): pychan.send / recv_ /  *)
(* close, _WaitGroup, _dequeWaiter and pyselect, as a state machine over   *)
(* tasks that interleave at every point where the code can block: the      *)
(* acquisition of a channel mutex, the acquisition of a group mutex inside *)
(* try_to_win, and the wait on a group semaphore.  Code between two such   *)
(* points runs under the channel mutex (or touches only task-local data)   *)
(* and is one step.                                                        *)
(***************************************************************************)
EXTENDS Integers, Sequences, FiniteSets, TLC

\* ---- bounds of the model ----
NTasks   == 3      \* tasks
NChans   == 2      \* non-nil channels
MaxCap   == 2      \* largest channel capacity
MaxOps   == 2      \* operations one task starts in the free scenarios

Tasks == 1..NTasks
Chans == 1..NChans

\* ---- program constants ----
pynilchan  == 0    \* the nil channel (a sentinel, it has no state)
None       == -1   \* Python None: g.which unset, ndefault unset, rx of a closed recv
PrepollWon == -2   \* g.which = "tx prepoll won" / "rx prepoll won"
NoTask     == 0    \* a free mutex

VARIABLES
    cap,        \* pychan._cap
    dataq,      \* pychan._dataq
    recvq,      \* pychan._recvq : sequence of waiter references [g, k]
    sendq,      \* pychan._sendq
    closed,     \* pychan._closed
    mu,         \* pychan._mu    : holder task or NoTask
    waitv,      \* _WaitGroup._waitv of the group of the task's current operation
    which,      \* _WaitGroup.which : None, index into waitv, or PrepollWon
    sema,       \* _WaitGroup._sema : releases not yet waited for (0 = acquired)
    gmu,        \* _WaitGroup._mu   : holder task or NoTask
    pc,         \* position of each task in the code
    loc,        \* local variables of the running operation of each task
    hist,       \* per task: the results of its completed operations, in order
    script,     \* per task: operations it still has to run, in order
    budget,     \* per task: operations it may still choose freely
    menu,       \* per task: the operations it may choose from
    logging,    \* whether hist keeps every result, or only the last one
    tm,         \* the PyTimer / PyTicker object: c, _f, _mu, _dt, _ver, __stop
    tp          \* the tasks around it: callers, fire tasks, the tick task

chanvars  == <<dataq, recvq, sendq, closed, mu>>
groupvars == <<waitv, which, sema, gmu>>
taskvars  == <<pc, loc, hist, script, budget>>
chanside  == <<cap, dataq, recvq, sendq, closed, mu, waitv, which, sema, gmu,
               pc, loc, hist, script, budget, menu, logging>>
timeside  == <<tm, tp>>
vars      == <<chanside, timeside>>

\* ---- the state as one record, so that code paths compose as functions ----
St ==
    [dataq |-> dataq, recvq |-> recvq, sendq |-> sendq, closed |-> closed, mu |-> mu,
     waitv |-> waitv, which |-> which, sema |-> sema, gmu |-> gmu,
     pc |-> pc, loc |-> loc, hist |-> hist, script |-> script, budget |-> budget]

\* the step ends in state s (taken as one value x, so that it is computed once)
Apply(s) ==
    \E x \in {s} :
        /\ dataq' = x.dataq /\ recvq' = x.recvq /\ sendq' = x.sendq
        /\ closed' = x.closed /\ mu' = x.mu
        /\ waitv' = x.waitv /\ which' = x.which /\ sema' = x.sema /\ gmu' = x.gmu
        /\ pc' = x.pc /\ loc' = x.loc /\ hist' = x.hist
        /\ script' = x.script /\ budget' = x.budget
        /\ cap' = cap /\ menu' = menu /\ logging' = logging
        /\ UNCHANGED timeside

NoResult ==
    [kind |-> "", ch |-> pynilchan, obj |-> None, after |-> {},
     st |-> "", msg |-> "", n |-> None, rx_ |-> <<>>]

NoLoc ==
    [kind |-> "", ch |-> pynilchan, obj |-> None, after |-> {},
     call |-> "", ctx |-> "", rx |-> None,
     ncasev |-> <<>>, i |-> 0, sendv |-> <<>>, recvv |-> <<>>, ndefault |-> None,
     ckind |-> "", n |-> None, commaok |-> TRUE, holdg |-> FALSE,
     wrecvv |-> <<>>, wsendv |-> <<>>, pend |-> NoResult, k |-> 0]

NoWaiter == [g |-> NoTask, k |-> 0]

\* ---- small helpers ----
Lock(s, ch, t) == [s EXCEPT !.mu[ch] = t]
Unlock(s, ch)  == [s EXCEPT !.mu[ch] = NoTask]

\* the result of a completed operation, as recorded in hist
Result(s, t, st, msg, n, rx_) ==
    [kind |-> s.loc[t].kind, ch |-> s.loc[t].ch, obj |-> s.loc[t].obj,
     after |-> s.loc[t].after, st |-> st, msg |-> msg, n |-> n, rx_ |-> rx_]

\* the operation returns (st = "ok") or raises (st = "panic") to its caller
Return(s, t, r) ==
    [s EXCEPT !.pc[t] = "idle", !.loc[t] = NoLoc,
              !.hist[t] = IF logging THEN Append(@, r) ELSE <<r>>]

\* pypanic(arg): the running operation ends by raising _PanicError(arg)
pypanic(s, t, arg) == Return(s, t, Result(s, t, "panic", arg, None, <<>>))

\* ---- _RecvWaiting / _SendWaiting / _WaitGroup ----
\* a registered waiter; rx_ and ok are the slots a wakeup fills
Waiting(kind, ch, obj, n, commaok) ==
    [kind |-> kind, chan |-> ch, obj |-> obj, sel_n |-> n, sel_commaok |-> commaok,
     rx_ |-> <<>>, ok |-> FALSE]

\* _WaitGroup(): a fresh group for the operation task t is running
WaitGroup(s, t) ==
    [s EXCEPT !.waitv[t] = <<>>, !.which[t] = None, !.sema[t] = 0, !.gmu[t] = NoTask]

register(s, t, wait) == [s EXCEPT !.waitv[t] = Append(@, wait)]

\* a faulty variant: try_to_win takes the group whether or not it has a winner
try_to_win_over(s, w) == [s EXCEPT !.which[w.g] = w.k]

\* try_to_win, with the group mutex free: the state after `with self._mu: ...`
try_to_win(s, w) ==
    IF s.which[w.g] # None THEN s ELSE [s EXCEPT !.which[w.g] = w.k]

\* the value try_to_win returns, read in the state before it
Wins(s, w) == s.which[w.g] = None

\* a faulty variant: the wakeup is lost
wakeup_lost(s, g) == s

\* _WaitGroup.wakeup: release the semaphore (the releases are counted, so that
\* a second release of the same group shows)
wakeup(s, g) == [s EXCEPT !.sema[g] = @ + 1]

\* _RecvWaiting.wakeup(rx, ok)
RecvWakeup(s, w, rx, ok) ==
    wakeup([s EXCEPT !.waitv[w.g][w.k].rx_ = <<rx, ok>>], w.g)

\* _SendWaiting.wakeup(ok)
SendWakeup(s, w, ok) ==
    wakeup([s EXCEPT !.waitv[w.g][w.k].ok = ok], w.g)

\* a faulty variant: the waiter queued last is taken first
popright(queue) ==
    [w |-> queue[Len(queue)], rest |-> SubSeq(queue, 1, Len(queue) - 1)]

\* queue.popleft() of _dequeWaiter: the waiter taken and the queue left
popleft(queue) == [w |-> Head(queue), rest |-> Tail(queue)]

\* a faulty variant: the capacity test off by one
BufferFull_offbyone(s, ch) == Len(s.dataq[ch]) > cap[ch]

\* len(self._dataq) >= self._cap of _trysend
BufferFull(s, ch) == Len(s.dataq[ch]) >= cap[ch]

\* a faulty variant: the woken sender's value is not moved into the buffer
Refill_dropped(buffer, obj) == buffer

\* a faulty variant: the woken sender's value jumps the buffer
Refill_front(buffer, obj) == <<obj>> \o buffer

\* self._dataq.append(send.obj) of _tryrecv: the woken sender's value enters the buffer
Refill(buffer, obj) == Append(buffer, obj)

\* queue.remove(w) of dequeAll, tolerating a waiter that is not queued
Remove(queue, w) == SelectSeq(queue, LAMBDA x : x # w)

\* the tuple pyselect returns as receive info for a recv case
SelRx(commaok, rx_) == IF commaok THEN rx_ ELSE <<rx_[1]>>

\* a faulty variant: select returns without its cleanup
Finally_skipped(s, t) == Return(s, t, s.loc[t].pend)

\* the `finally: g.dequeAll()` of pyselect, entered with the result in loc.pend:
\* the select returns as soon as every registered waiter was handled
Finally(s, t) ==
    IF s.loc[t].k > Len(s.waitv[t])
    THEN Return(s, t, s.loc[t].pend)
    ELSE [s EXCEPT !.pc[t] = "dequeAll"]

\* second pass of pyselect: the cases to subscribe, send cases first
Subs(l) == l.sendv \o l.recvv

\* ---- what the caller of _trysend / _tryrecv does with the outcome ----
\* res: "ok" (returned ok=True, channel mutex released), "fail" (returned ok=False,
\* channel mutex still held) or "panic" (raised, channel mutex released).
\* The callers are pychan.send, pychan.recv_, and the two passes of pyselect.

\* a faulty variant: send returns although no receiver took the value
SendAfterTry_eager(s, t, res) ==
    IF res = "panic"
    THEN pypanic(s, t, "send on closed channel")
    ELSE LET s1 == IF res = "ok" THEN s ELSE Unlock(s, s.loc[t].ch)
         IN  Return(s1, t, Result(s1, t, "ok", "", None, <<>>))

\* pychan.send after _trysend
SendAfterTry(s, t, res) ==
    LET ch == s.loc[t].ch
        s1 == register(WaitGroup(s, t), t,
                       Waiting("send", ch, s.loc[t].obj, None, FALSE))
        me == [g |-> t, k |-> 1]
    IN  CASE res = "ok"    -> Return(s, t, Result(s, t, "ok", "", None, <<>>))
          [] res = "panic" -> pypanic(s, t, "send on closed channel")
          [] OTHER         ->
                [Unlock([s1 EXCEPT !.sendq[ch] = Append(@, me)], ch)
                    EXCEPT !.pc[t] = "send_wait"]

\* pychan.recv_ after _tryrecv
RecvAfterTry(s, t, res, rx_) ==
    LET ch == s.loc[t].ch
        s1 == register(WaitGroup(s, t), t, Waiting("recv", ch, None, None, TRUE))
        me == [g |-> t, k |-> 1]
    IN  IF res = "ok"
        THEN Return(s, t, Result(s, t, "ok", "", None, rx_))
        ELSE [Unlock([s1 EXCEPT !.recvq[ch] = Append(@, me)], ch)
                    EXCEPT !.pc[t] = "recv_wait"]

\* pyselect, first pass, after polling case loc.i
PollAfterTry(s, t, res, rx_) ==
    LET l  == s.loc[t]
        c  == l.ncasev[l.i]
    IN  CASE res = "ok"    ->
                Return(s, t, Result(s, t, "ok", "", l.n,
                       IF l.ckind = "send" THEN <<>> ELSE SelRx(l.commaok, rx_)))
          [] res = "panic" -> pypanic(s, t, "send on closed channel")
          [] OTHER         ->
                [Unlock(s, l.ch) EXCEPT
                    !.pc[t] = "sel1",
                    !.loc[t].i = @ + 1,
                    !.loc[t].sendv = IF l.ckind = "send" THEN Append(@, c) ELSE @,
                    !.loc[t].recvv = IF l.ckind = "send" THEN @ ELSE Append(@, c)]

\* pyselect, second pass, after trying case loc.i under ch._mu and g._mu
SubscribeAfterTry(s, t, res, rx_) ==
    LET l  == s.loc[t]
        w  == Waiting(l.ckind, l.ch, l.obj, l.n, l.commaok)
        s1 == register(s, t, w)
        me == [g |-> t, k |-> Len(s1.waitv[t])]
        s2 == IF l.ckind = "send"
              THEN [s1 EXCEPT !.sendq[l.ch] = Append(@, me)]
              ELSE [s1 EXCEPT !.recvq[l.ch] = Append(@, me)]
    IN  CASE res = "ok"    ->
                Finally([s EXCEPT
                    !.which[t] = PrepollWon,
                    !.gmu[t] = NoTask,
                    !.loc[t].k = 1,
                    !.loc[t].pend = Result(s, t, "ok", "", l.n,
                        IF l.ckind = "send" THEN <<>> ELSE SelRx(l.commaok, rx_))], t)
          [] res = "panic" ->
                Finally([s EXCEPT
                    !.gmu[t] = NoTask,
                    !.loc[t].k = 1,
                    !.loc[t].pend = Result(s, t, "panic", "send on closed channel",
                                           None, <<>>)], t)
          [] OTHER         ->
                [Unlock(s2, l.ch) EXCEPT
                    !.gmu[t] = NoTask,
                    !.loc[t].i = @ + 1,
                    !.pc[t] = IF l.i + 1 > Len(Subs(l)) THEN "sel_wait" ELSE "sel2"]

AfterTry(s, t, res, rx_) ==
    CASE s.loc[t].call = "send" -> SendAfterTry(s, t, res)
      [] s.loc[t].call = "recv" -> RecvAfterTry(s, t, res, rx_)
      [] s.loc[t].call = "sel1" -> PollAfterTry(s, t, res, rx_)
      [] OTHER                  -> SubscribeAfterTry(s, t, res, rx_)

\* a faulty variant: close wakes only the first of the readers it drained
WakeRecvv_first(s, recvv) ==
    IF recvv = <<>> THEN s ELSE RecvWakeup(s, Head(recvv), None, FALSE)

\* pychan.close, after both queues were drained: the scheduled wakeups, made
\* outside of ch._mu
RECURSIVE WakeRecvv(_, _)
WakeRecvv(s, recvv) ==
    IF recvv = <<>> THEN s
    ELSE WakeRecvv(RecvWakeup(s, Head(recvv), None, FALSE), Tail(recvv))

RECURSIVE WakeSendv(_, _)
WakeSendv(s, sendv) ==
    IF sendv = <<>> THEN s
    ELSE WakeSendv(SendWakeup(s, Head(sendv), FALSE), Tail(sendv))

\* the queue a task in _dequeWaiter works on
DeqOnRecvq(l) == l.ctx \in {"send_sync", "send_buf", "close_r"}

DeqQueue(s, t) ==
    IF DeqOnRecvq(s.loc[t]) THEN s.recvq[s.loc[t].ch] ELSE s.sendq[s.loc[t].ch]

RECURSIVE AfterDeq(_, _, _)

\* a call of _dequeWaiter(queue) in context ctx: on an empty queue it returns None
\* at once; otherwise its loop runs as the action dequeWaiter, one waiter a step,
\* since try_to_win may have to wait for the mutex of the waiter's group
EnterDeq(s, t, ctx) ==
    LET s1 == [s EXCEPT !.loc[t].ctx = ctx]
    IN  IF DeqQueue(s1, t) = <<>>
        THEN AfterDeq(s1, t, NoWaiter)
        ELSE [s1 EXCEPT !.pc[t] = "deq"]

\* ---- the code that follows a call of _dequeWaiter ----
\* w is the waiter _dequeWaiter returned (it has won its group), or NoWaiter
AfterDeq(s, t, w) ==
    LET l  == s.loc[t]
        ch == l.ch
    IN  CASE l.ctx = "send_sync" ->          \* _trysend, synchronous channel
                IF w = NoWaiter
                THEN AfterTry(s, t, "fail", <<>>)
                ELSE AfterTry(RecvWakeup(Unlock(s, ch), w, l.obj, TRUE), t, "ok", <<>>)
          [] l.ctx = "send_buf" ->           \* _trysend, buffered channel
                IF w = NoWaiter
                THEN AfterTry(Unlock(s, ch), t, "ok", <<>>)
                ELSE LET rx == Head(s.dataq[ch])
                         s1 == [s EXCEPT !.dataq[ch] = Tail(@)]
                     IN  AfterTry(RecvWakeup(Unlock(s1, ch), w, rx, TRUE), t, "ok", <<>>)
          [] l.ctx = "recv_buf" ->           \* _tryrecv, value taken from the buffer
                IF w = NoWaiter
                THEN AfterTry(Unlock(s, ch), t, "ok", <<l.rx, TRUE>>)
                ELSE LET s1 == [s EXCEPT !.dataq[ch] = Refill(@, s.waitv[w.g][w.k].obj)]
                     IN  AfterTry(SendWakeup(Unlock(s1, ch), w, TRUE), t, "ok",
                                  <<l.rx, TRUE>>)
          [] l.ctx = "recv_sync" ->          \* _tryrecv, empty buffer, not closed
                IF w = NoWaiter
                THEN AfterTry(s, t, "fail", <<>>)
                ELSE AfterTry(SendWakeup(Unlock(s, ch), w, TRUE), t, "ok",
                              <<s.waitv[w.g][w.k].obj, TRUE>>)
          [] l.ctx = "close_r" ->            \* close: wake-up all readers
                IF w = NoWaiter
                THEN EnterDeq(s, t, "close_s")
                ELSE EnterDeq([s EXCEPT !.loc[t].wrecvv = Append(@, w)], t, "close_r")
          [] OTHER ->                        \* close: wake-up all writers
                IF w = NoWaiter
                THEN LET s1 == WakeSendv(WakeRecvv(Unlock(s, ch), l.wrecvv), l.wsendv)
                     IN  Return(s1, t, Result(s1, t, "ok", "", None, <<>>))
                ELSE EnterDeq([s EXCEPT !.loc[t].wsendv = Append(@, w)], t, "close_s")

\* a faulty variant: _trysend without its check of the closed flag
trysend_unchecked(s, t) ==
    LET ch == s.loc[t].ch  obj == s.loc[t].obj
    IN  IF cap[ch] = 0
        THEN EnterDeq(s, t, "send_sync")
        ELSE IF BufferFull(s, ch)
        THEN AfterTry(s, t, "fail", <<>>)
        ELSE EnterDeq([s EXCEPT !.dataq[ch] = Append(@, obj)], t, "send_buf")

\* a faulty variant: _tryrecv without its check of the closed flag
tryrecv_unchecked(s, t) ==
    LET ch == s.loc[t].ch
    IN  IF Len(s.dataq[ch]) > 0
        THEN EnterDeq([s EXCEPT !.loc[t].rx = Head(s.dataq[ch]), !.dataq[ch] = Tail(@)],
                      t, "recv_buf")
        ELSE EnterDeq(s, t, "recv_sync")

\* ---- pychan._trysend / _tryrecv, entered with ch._mu held by t ----
trysend(s, t) ==
    LET ch == s.loc[t].ch  obj == s.loc[t].obj
    IN  IF s.closed[ch]
        THEN AfterTry(Unlock(s, ch), t, "panic", <<>>)
        ELSE IF cap[ch] = 0
        THEN EnterDeq(s, t, "send_sync")
        ELSE IF BufferFull(s, ch)
        THEN AfterTry(s, t, "fail", <<>>)
        ELSE EnterDeq([s EXCEPT !.dataq[ch] = Append(@, obj)], t, "send_buf")

tryrecv(s, t) ==
    LET ch == s.loc[t].ch
    IN  IF Len(s.dataq[ch]) > 0
        THEN EnterDeq([s EXCEPT !.loc[t].rx = Head(s.dataq[ch]), !.dataq[ch] = Tail(@)],
                      t, "recv_buf")
        ELSE IF s.closed[ch]
        THEN AfterTry(Unlock(s, ch), t, "ok", <<None, FALSE>>)
        ELSE EnterDeq(s, t, "recv_sync")

\* ---- actions ----

\* _dequeWaiter(queue): one iteration of its loop, under ch._mu.  The iteration
\* pops the head and calls try_to_win, which needs the mutex of the waiter's group.
dequeWaiter(t) ==
    /\ pc[t] = "deq"
    /\ LET l  == loc[t]
           ch == l.ch
           w  == popleft(DeqQueue(St, t)).w
           s1 == IF DeqOnRecvq(l)
                 THEN [St EXCEPT !.recvq[ch] = popleft(@).rest]
                 ELSE [St EXCEPT !.sendq[ch] = popleft(@).rest]
       IN  /\ gmu[w.g] = NoTask
           /\ IF Wins(s1, w)
              THEN Apply(AfterDeq(try_to_win(s1, w), t, w))
              ELSE Apply(EnterDeq(try_to_win(s1, w), t, l.ctx))

\* pychan.send: self._mu.acquire(); ok = self._trysend(obj)
SendAcquire(t) ==
    /\ pc[t] = "send_acq"
    /\ mu[loc[t].ch] = NoTask
    /\ Apply(trysend(Lock(St, loc[t].ch, t), t))

\* pychan.send: g.wait(); assert g.which is me; if not me.ok: pypanic(...)
SendWake(t) ==
    /\ pc[t] = "send_wait"
    /\ sema[t] = 1
    /\ LET s1 == [St EXCEPT !.sema[t] = 0]
       IN  IF waitv[t][1].ok
           THEN Apply(Return(s1, t, Result(s1, t, "ok", "", None, <<>>)))
           ELSE Apply(pypanic(s1, t, "send on closed channel"))

\* pychan.recv_: self._mu.acquire(); rx_, ok = self._tryrecv()
RecvAcquire(t) ==
    /\ pc[t] = "recv_acq"
    /\ mu[loc[t].ch] = NoTask
    /\ Apply(tryrecv(Lock(St, loc[t].ch, t), t))

\* pychan.recv_: g.wait(); assert g.which is me; return me.rx_
RecvWake(t) ==
    /\ pc[t] = "recv_wait"
    /\ sema[t] = 1
    /\ LET s1 == [St EXCEPT !.sema[t] = 0]
       IN  Apply(Return(s1, t, Result(s1, t, "ok", "", None, waitv[t][1].rx_)))

\* a faulty variant: close throws the buffered values away
CloseAcquire_flush(t) ==
    /\ pc[t] = "close_acq"
    /\ mu[loc[t].ch] = NoTask
    /\ IF closed[loc[t].ch]
       THEN Apply(pypanic(St, t, "close of closed channel"))
       ELSE Apply(EnterDeq([Lock(St, loc[t].ch, t) EXCEPT !.closed[loc[t].ch] = TRUE,
                                                         !.dataq[loc[t].ch] = <<>>],
                           t, "close_r"))

\* pychan.close: with self._mu: the closed check, then the drain of both queues
CloseAcquire(t) ==
    /\ pc[t] = "close_acq"
    /\ mu[loc[t].ch] = NoTask
    /\ IF closed[loc[t].ch]
       THEN Apply(pypanic(St, t, "close of closed channel"))
       ELSE Apply(EnterDeq([Lock(St, loc[t].ch, t) EXCEPT !.closed[loc[t].ch] = TRUE],
                           t, "close_r"))

\* ---- pyselect ----

\* the local variables of a pass set for the case c it is about to try
AtCase(s, t, c, call) ==
    [s EXCEPT !.loc[t].ch = c.ch, !.loc[t].obj = c.obj, !.loc[t].n = c.n,
              !.loc[t].ckind = IF c.kind = "send" THEN "send" ELSE "recv",
              !.loc[t].commaok = (c.kind = "recv_"),
              !.loc[t].call = call]

\* _trysend or _tryrecv, by the kind of the case at hand
trycase(s, t) == IF s.loc[t].ckind = "send" THEN trysend(s, t) ELSE tryrecv(s, t)

\* a faulty variant: the test for "nothing to wait on" comes before the default
EndOfPoll_blockfirst(s, t) ==
    LET l == s.loc[t]
    IN  IF Len(l.recvv) + Len(l.sendv) = 0
        THEN [s EXCEPT !.pc[t] = "blocked"]
        ELSE IF l.ndefault # None
        THEN Return(s, t, Result(s, t, "ok", "", l.ndefault, <<>>))
        ELSE [WaitGroup(s, t) EXCEPT !.pc[t] = "sel2", !.loc[t].i = 1]

\* a faulty variant: the default is ignored and the select subscribes its cases
EndOfPoll_nodefault(s, t) ==
    LET l == s.loc[t]
    IN  IF Len(l.recvv) + Len(l.sendv) = 0
        THEN Return(s, t, Result(s, t, "ok", "", l.ndefault, <<>>))
        ELSE [WaitGroup(s, t) EXCEPT !.pc[t] = "sel2", !.loc[t].i = 1]

\* after the first pass: execute default if there is one; block forever on
\* select{} or nil channels only; else the second pass begins with a new group
EndOfPoll(s, t) ==
    LET l == s.loc[t]
    IN  IF l.ndefault # None
        THEN Return(s, t, Result(s, t, "ok", "", l.ndefault, <<>>))
        ELSE IF Len(l.recvv) + Len(l.sendv) = 0
        THEN [s EXCEPT !.pc[t] = "blocked"]
        ELSE [WaitGroup(s, t) EXCEPT !.pc[t] = "sel2", !.loc[t].i = 1]

\* first pass: poll case loc.i of the shuffled cases
SelectPoll(t) ==
    /\ pc[t] = "sel1"
    /\ LET l == loc[t]
       IN  IF l.i > Len(l.ncasev)
           THEN Apply(EndOfPoll(St, t))
           ELSE LET c == l.ncasev[l.i]
                IN  IF c.kind = "default"
                    THEN IF l.ndefault # None
                         THEN Apply(pypanic(St, t, "pyselect: multiple default"))
                         ELSE Apply([St EXCEPT !.loc[t].ndefault = c.n,
                                               !.loc[t].i = @ + 1])
                    ELSE IF c.ch = pynilchan
                    THEN Apply([St EXCEPT !.loc[t].i = @ + 1])
                    ELSE /\ mu[c.ch] = NoTask
                         /\ Apply(trycase(AtCase(Lock(St, c.ch, t), t, c, "sel1"), t))

\* second pass: ch._mu.acquire(); with g._mu: check g.which, else try the case
\* again and, when it is still not ready, queue a waiter for it
SelectSubscribe(t) ==
    /\ pc[t] = "sel2"
    /\ LET l == loc[t]
           c == Subs(l)[l.i]
       IN  /\ mu[c.ch] = NoTask
           /\ gmu[t] = NoTask
           /\ IF which[t] # None
              THEN \* a case queued before already won: release ch._mu and wait in
                   \* selected(), still inside `with g._mu`
                   Apply([St EXCEPT !.gmu[t] = t, !.loc[t].holdg = TRUE,
                                    !.pc[t] = "sel_wait"])
              ELSE Apply(trycase(
                       AtCase([Lock(St, c.ch, t) EXCEPT !.gmu[t] = t], t, c, "sel2"), t))

\* a faulty variant: the cleanup of select runs inside `with g._mu`
selected_locked(t) ==
    /\ pc[t] = "sel_wait"
    /\ sema[t] = 1
    /\ LET sel == waitv[t][which[t]]
           s1  == [St EXCEPT !.sema[t] = 0, !.loc[t].k = 1]
           r   == IF sel.kind = "send"
                  THEN IF sel.ok
                       THEN Result(St, t, "ok", "", sel.sel_n, <<>>)
                       ELSE Result(St, t, "panic", "send on closed channel", None, <<>>)
                  ELSE Result(St, t, "ok", "", sel.sel_n,
                              SelRx(sel.sel_commaok, sel.rx_))
       IN  Apply(Finally([s1 EXCEPT !.loc[t].pend = r], t))

\* selected(): g.wait(), then the result of the case that won; leaving the
\* `with g._mu` block releases the group mutex when it was held
selected(t) ==
    /\ pc[t] = "sel_wait"
    /\ sema[t] = 1
    /\ LET sel == waitv[t][which[t]]
           s1  == [St EXCEPT !.sema[t] = 0,
                             !.gmu[t] = IF loc[t].holdg THEN NoTask ELSE @,
                             !.loc[t].holdg = FALSE,
                             !.loc[t].k = 1]
           r   == IF sel.kind = "send"
                  THEN IF sel.ok
                       THEN Result(St, t, "ok", "", sel.sel_n, <<>>)
                       ELSE Result(St, t, "panic", "send on closed channel", None, <<>>)
                  ELSE Result(St, t, "ok", "", sel.sel_n,
                              SelRx(sel.sel_commaok, sel.rx_))
       IN  Apply(Finally([s1 EXCEPT !.loc[t].pend = r], t))

\* _WaitGroup.dequeAll: one iteration of its loop: with ch._mu: queue.remove(w)
dequeAll(t) ==
    /\ pc[t] = "dequeAll"
    /\ LET k  == loc[t].k
           w  == waitv[t][k]
           me == [g |-> t, k |-> k]
           s1 == IF w.kind = "send"
                 THEN [St EXCEPT !.sendq[w.chan] = Remove(@, me)]
                 ELSE [St EXCEPT !.recvq[w.chan] = Remove(@, me)]
       IN  /\ mu[w.chan] = NoTask
           /\ Apply(Finally([s1 EXCEPT !.loc[t].k = @ + 1], t))

\* ---- the tasks' programs ----
\* An operation is [kind, ch, obj, casev]: kind "send", "recv_", "close" or
\* "select"; casev (select only) lists the cases [kind, ch, obj] with kind
\* "send", "recv", "recv_" or "default".  obj = 0 asks for a fresh value.

Op(kind, ch, obj)  == [kind |-> kind, ch |-> ch, obj |-> obj, casev |-> <<>>]
SelectOp(casev)    == [kind |-> "select", ch |-> pynilchan, obj |-> None, casev |-> casev]
Case(kind, ch, obj) == [kind |-> kind, ch |-> ch, obj |-> obj]
default            == Case("default", pynilchan, None)

\* a value no other send carries: by task, operations left to run and case number
Val(t, n) == 100 * t + 10 * (Len(script[t]) + budget[t]) + n

\* list(enumerate(casev)) in the order p: the outcomes of random.shuffle
Perms(len) == {p \in [1..len -> 1..len] : \A i, j \in 1..len : p[i] = p[j] => i = j}

Shuffled(t, casev, p) ==
    [i \in 1..Len(casev) |->
        LET c == casev[p[i]]
        IN  [n |-> p[i] - 1, kind |-> c.kind, ch |-> c.ch,
             obj |-> IF c.kind = "send" /\ c.obj = 0 THEN Val(t, p[i] - 1) ELSE c.obj]]

\* close() has completed on ch: the flag is set and the closer left the mutex
CloseCompleted(ch) ==
    /\ closed[ch]
    /\ \A t \in Tasks : ~(pc[t] = "deq" /\ loc[t].kind = "close" /\ loc[t].ch = ch)

\* _blockforever() is the position "blocked", which no action leaves
Choices(t) ==
    IF script[t] # <<>> THEN {Head(script[t])}
    ELSE IF budget[t] > 0 THEN menu[t]
    ELSE {}

\* a task calls send, recv_, close or select
Start(t) ==
    /\ pc[t] = "idle"
    /\ \E o \in Choices(t) : \E p \in Perms(Len(o.casev)) :
        LET s0 == [St EXCEPT
                     !.script[t] = IF @ # <<>> THEN Tail(@) ELSE @,
                     !.budget[t] = IF script[t] # <<>> THEN @ ELSE @ - 1,
                     !.loc[t] = [NoLoc EXCEPT
                         !.kind = o.kind, !.ch = o.ch,
                         !.obj = IF o.kind = "send" /\ o.obj = 0 THEN Val(t, 0) ELSE o.obj,
                         !.after = {c \in Chans : CloseCompleted(c)},
                         !.call = IF o.kind = "send" THEN "send" ELSE "recv",
                         !.ncasev = Shuffled(t, o.casev, p),
                         !.i = 1]]
        IN  CASE o.kind = "select" -> Apply([s0 EXCEPT !.pc[t] = "sel1"])
              [] o.kind = "close"  ->
                    IF o.ch = pynilchan
                    THEN Apply(pypanic(s0, t, "close of nil channel"))
                    ELSE Apply([s0 EXCEPT !.pc[t] = "close_acq"])
              [] o.ch = pynilchan  -> Apply([s0 EXCEPT !.pc[t] = "blocked"])
              [] o.kind = "send"   -> Apply([s0 EXCEPT !.pc[t] = "send_acq"])
              [] OTHER             -> Apply([s0 EXCEPT !.pc[t] = "recv_acq"])

\* the state after construction: pychan.__init__ for every channel, idle tasks
InitChans(caps, scripts, budgets, menus, log) ==
    /\ cap \in caps
    /\ dataq  = [c \in Chans |-> <<>>]
    /\ recvq  = [c \in Chans |-> <<>>]
    /\ sendq  = [c \in Chans |-> <<>>]
    /\ closed = [c \in Chans |-> FALSE]
    /\ mu     = [c \in Chans |-> NoTask]
    /\ waitv  = [t \in Tasks |-> <<>>]
    /\ which  = [t \in Tasks |-> None]
    /\ sema   = [t \in Tasks |-> 0]
    /\ gmu    = [t \in Tasks |-> NoTask]
    /\ pc     = [t \in Tasks |-> "idle"]
    /\ loc    = [t \in Tasks |-> NoLoc]
    /\ hist   = [t \in Tasks |-> <<>>]
    /\ script \in scripts
    /\ budget = budgets
    /\ menu   = menus
    /\ logging = log

\* no timer and no ticker is in use
NoTime ==
    /\ tm = [kind |-> "", f |-> FALSE, c |-> <<>>, mu |-> <<"free", 0>>,
             dt |-> 0, ver |-> 0, stop |-> FALSE]
    /\ tp = [call |-> <<>>, fire |-> <<>>, tick |-> <<>>, since |-> ""]

InitWith(caps, scripts, budgets, menus, log) ==
    InitChans(caps, scripts, budgets, menus, log) /\ NoTime

\* ---- the free scenario: a selecting task and tasks running lone operations ----
LoneOps ==
    {Op(k, c, 0) : k \in {"send", "recv_", "close"}, c \in Chans}

\* selects of two cases on two different channels, each a send or a recv_
TwoChanSelects ==
    {SelectOp(<<Case(a, cd[1], 0), Case(b, cd[2], 0)>>) :
        a \in {"send", "recv_"}, b \in {"send", "recv_"},
        cd \in {x \in Chans \X Chans : x[1] < x[2]}}

\* selects with a send and a recv_ case on one and the same channel
OneChanSelects ==
    {SelectOp(<<Case("send", c, 0), Case("recv_", c, 0)>>) : c \in Chans}

\* channel c has capacity c - 1: the first one is synchronous
FreeCaps == {[c \in Chans |-> c - 1]}

NoScripts == {[t \in Tasks |-> <<>>]}

Init ==
    InitWith(FreeCaps, NoScripts,
             [t \in Tasks |-> IF t = NTasks THEN MaxOps - 1 ELSE MaxOps],
             [t \in Tasks |-> IF t = 1 THEN TwoChanSelects \cup OneChanSelects ELSE LoneOps],
             FALSE)

Next ==
    \E t \in Tasks :
        \/ Start(t)
        \/ SendAcquire(t)
        \/ SendWake(t)
        \/ RecvAcquire(t)
        \/ RecvWake(t)
        \/ CloseAcquire(t)
        \/ dequeWaiter(t)
        \/ SelectPoll(t)
        \/ SelectSubscribe(t)
        \/ selected(t)
        \/ dequeAll(t)

Spec == Init /\ [][Next]_vars

\* ---- lone operations only: no task selects ----
NextChan ==
    \E t \in Tasks :
        \/ Start(t)
        \/ SendAcquire(t)
        \/ SendWake(t)
        \/ RecvAcquire(t)
        \/ RecvWake(t)
        \/ CloseAcquire(t)
        \/ dequeWaiter(t)

\* ---- send and recv_ only ----
NextSendRecv ==
    \E t \in Tasks :
        \/ Start(t)
        \/ SendAcquire(t)
        \/ SendWake(t)
        \/ RecvAcquire(t)
        \/ RecvWake(t)
        \/ dequeWaiter(t)

\* the first channel buffered with any capacity 1..MaxCap, the others synchronous
BufferedCaps == {[c \in Chans |-> IF c = 1 THEN k ELSE 0] : k \in 1..MaxCap}

NoBudget == [t \in Tasks |-> 0]
NoMenu   == [t \in Tasks |-> {}]

\* a task that sends 1, 2, ..., n on channel 1; a task that calls recv_ n times
SendUpTo(n) == [i \in 1..n |-> Op("send", 1, i)]
RecvTimes(n) == [i \in 1..n |-> Op("recv_", 1, 0)]

\* ---- scenario: closed drain.  Task 1 sends 1, 2, ... on the buffered channel 1,
\* task 2 receives in a loop, task 3 closes the channel at any moment ----
NDrain == MaxCap + 1

InitDrain ==
    InitWith(BufferedCaps,
             {[t \in Tasks |->
                 CASE t = 1 -> SendUpTo(NDrain)
                   [] t = 2 -> RecvTimes(NDrain + 2)
                   [] t = 3 -> <<Op("close", 1, 0)>>
                   [] OTHER -> <<>>]},
             NoBudget, NoMenu, TRUE)

SpecDrain == InitDrain /\ [][NextChan]_vars

\* ---- scenario: one sender, one receiver on the buffered channel 1; the sender
\* issues more values than the buffer holds ----
NFifo == MaxCap + 2

InitFifo ==
    InitWith(BufferedCaps,
             {[t \in Tasks |->
                 CASE t = 1 -> SendUpTo(NFifo)
                   [] t = 2 -> RecvTimes(NFifo)
                   [] OTHER -> <<>>]},
             NoBudget, NoMenu, TRUE)

SpecFifo == InitFifo /\ [][NextSendRecv]_vars

\* ---- scenario: every task sends and receives on the synchronous channel 1 as
\* it likes, the last task may also close it ----
SyncOps == {Op("send", 1, 0), Op("recv_", 1, 0)}

InitSync ==
    InitWith(FreeCaps, NoScripts,
             [t \in Tasks |-> IF t = NTasks THEN MaxOps - 1 ELSE MaxOps],
             [t \in Tasks |-> IF t = NTasks THEN SyncOps \cup {Op("close", 1, 0)}
                                            ELSE SyncOps],
             TRUE)

SpecSync == InitSync /\ [][NextChan]_vars

\* ---- scenario: task 1 works on the nil channel, alone or inside select, the
\* other tasks run lone operations on channel 1 ----
NilOps == {Op(k, pynilchan, 0) : k \in {"send", "recv_", "close"}}

NilSelects ==
    {SelectOp(<<Case("recv_", pynilchan, 0), Case("send", pynilchan, 0)>>),
     SelectOp(<<Case("send", pynilchan, 0), default>>),
     SelectOp(<<Case("recv_", pynilchan, 0), Case("recv_", 1, 0)>>),
     SelectOp(<<Case("send", pynilchan, 0), Case("send", 1, 0)>>),
     SelectOp(<<Case("recv", pynilchan, 0), Case("recv_", 1, 0), default>>)}

InitNil ==
    InitWith(FreeCaps, NoScripts,
             [t \in Tasks |-> IF t = NTasks THEN MaxOps - 1 ELSE MaxOps],
             [t \in Tasks |-> IF t = 1 THEN NilOps \cup NilSelects
                                       ELSE {Op(k, 1, 0) : k \in {"send", "recv_", "close"}}],
             FALSE)

SpecNil == InitNil /\ [][Next]_vars

\* ---- scenario: task 1 selects without default and parks, task 2 selects with a
\* default, the other tasks run lone operations ----
ParkSelects ==
    {SelectOp(<<Case(a, 1, 0), Case(a, 2, 0)>>) : a \in {"send", "recv_"}}

DefaultSelects ==
    {SelectOp(<<Case(a, c, 0), default>>) : a \in {"send", "recv_"}, c \in Chans}
        \cup {SelectOp(<<Case("send", 1, 0), Case("recv_", 2, 0), default>>)}

InitDefault ==
    InitWith(FreeCaps, NoScripts,
             [t \in Tasks |-> IF t = NTasks THEN MaxOps - 1 ELSE MaxOps],
             [t \in Tasks |-> CASE t = 1 -> ParkSelects
                                [] t = 2 -> DefaultSelects
                                [] OTHER -> LoneOps],
             FALSE)

SpecDefault == InitDefault /\ [][Next]_vars

\* ---- fair scheduling: every task that can take a step eventually takes one ----
TaskStep(t) ==
    \/ Start(t)
    \/ SendAcquire(t)
    \/ SendWake(t)
    \/ RecvAcquire(t)
    \/ RecvWake(t)
    \/ CloseAcquire(t)
    \/ dequeWaiter(t)
    \/ SelectPoll(t)
    \/ SelectSubscribe(t)
    \/ selected(t)
    \/ dequeAll(t)

Fairness == \A t \in Tasks : WF_vars(TaskStep(t))

\* ---- scenario: task 1 runs one select without default on two channels, each
\* other task runs one lone operation, under fair scheduling ----
InitWake ==
    InitWith(FreeCaps, NoScripts,
             [t \in Tasks |-> 1],
             [t \in Tasks |-> IF t = 1 THEN TwoChanSelects ELSE LoneOps],
             FALSE)

SpecWake == InitWake /\ [][Next]_vars /\ Fairness

\* ---- scenario: task 1 runs one select, with two defaults or without any, the
\* other tasks run lone operations ----
TwoDefaultSelects ==
    {SelectOp(<<Case(a, c, 0), default, default>>) : a \in {"send", "recv_"}, c \in Chans}

InitTwoDefaults ==
    InitWith(FreeCaps, NoScripts,
             [t \in Tasks |-> CASE t = 1 -> 1
                                [] t = NTasks -> MaxOps - 1
                                [] OTHER -> MaxOps],
             [t \in Tasks |-> IF t = 1 THEN TwoDefaultSelects \cup ParkSelects ELSE LoneOps],
             FALSE)

SpecTwoDefaults == InitTwoDefaults /\ [][Next]_vars

\* ---- two tasks that select, next to a task running lone operations ----
InitSelects ==
    InitWith(FreeCaps, NoScripts,
             [t \in Tasks |-> 1],
             [t \in Tasks |-> IF t <= 2 THEN TwoChanSelects \cup OneChanSelects ELSE LoneOps],
             FALSE)

SpecSelects == InitSelects /\ [][Next]_vars

\* ---- two fairly scheduled selects over both channels, and a third task ----
InitPair ==
    InitWith(FreeCaps, NoScripts,
             [t \in Tasks |-> 1],
             [t \in Tasks |-> IF t <= 2 THEN TwoChanSelects ELSE LoneOps],
             FALSE)

SpecPair == InitPair /\ [][Next]_vars /\ Fairness

\* ---- task 1 selects with a send and a recv_ case on one channel, the other
\* tasks run one lone operation each, under fair scheduling ----
InitSame ==
    InitWith(FreeCaps, NoScripts,
             [t \in Tasks |-> 1],
             [t \in Tasks |-> IF t = 1 THEN OneChanSelects ELSE LoneOps],
             FALSE)

SpecSame == InitSame /\ [][Next]_vars /\ Fairness

\* ======================= time: PyTimer and PyTicker =======================
\* One timer (or one ticker), the tasks that call its methods and receive from
\* its channel, and the background tasks it spawns.  The tasks interleave where
\* the code can block: at _mu.lock(), at c.recv() and at c.send().

NCallers == 2      \* tasks calling into the timer or ticker
MaxCalls == 2      \* calls one of them makes
MaxTicks == 3      \* ticks the tick task attempts

Callers  == 1..NCallers
\* _ver grows by one per reset and per stop: those of the callers, and those
\* that the timer's function f makes
MaxVer   == 1 + (NCallers + 1) * MaxCalls
INFINITY == 0      \* _dt of a stopped or expired timer
Dt       == 1      \* the delay every reset asks for
Free     == <<"free", 0>>              \* _mu is not held

\* --- the channel c: a buffered channel of capacity 1, or the nil channel ---
chan_cap == 1
\* c.len()
chan_len == Len(tm.c)
\* c.send(v) can complete: c is a real channel with room in its buffer
chan_cansend == ~tm.f /\ chan_len < chan_cap
\* c.recv() can complete: c holds a value (a nil channel never does)
chan_canrecv == chan_len > 0

\* --- the tasks ---
IdleCall == [pc |-> "idle", left |-> MaxCalls, canceled |-> FALSE,
             op |-> "", ret |-> "", val |-> 0]

\* the call returns ret (and the received value val, for a recv)
TimeReturn(k, op, ret, val) ==
    [tp EXCEPT !.call[k].pc = "idle", !.call[k].op = op,
               !.call[k].ret = ret, !.call[k].val = val]

\* a task calls stop, reset or recv: it arrives at the first blocking point
TimeCall(k, ops) ==
    /\ tp.call[k].pc = "idle"
    /\ tp.call[k].left > 0
    /\ \E op \in ops :
          tp' = [tp EXCEPT !.call[k].pc = op, !.call[k].left = @ - 1]
    /\ UNCHANGED <<tm, chanside>>

\* a faulty variant: stop without the _ver += 1 that cancels the fire task
Timer_stop_samever(k) ==
    /\ tp.call[k].pc = "stop"
    /\ tm.mu = Free
    /\ IF tm.dt = INFINITY
       THEN /\ tm' = [tm EXCEPT !.mu = <<"caller", k>>]
            /\ tp' = [tp EXCEPT !.call[k].pc = "drain", !.call[k].canceled = FALSE]
       ELSE /\ tm' = [tm EXCEPT !.mu = <<"caller", k>>, !.dt = INFINITY]
            /\ tp' = [tp EXCEPT !.call[k].pc = "drain", !.call[k].canceled = TRUE]
    /\ UNCHANGED chanside

\* PyTimer._stop, up to the drain loop
Timer_stop(k) ==
    /\ tp.call[k].pc = "stop"
    /\ tm.mu = Free
    /\ IF tm.dt = INFINITY
       THEN /\ tm' = [tm EXCEPT !.mu = <<"caller", k>>]
            /\ tp' = [tp EXCEPT !.call[k].pc = "drain", !.call[k].canceled = FALSE]
       ELSE /\ tm' = [tm EXCEPT !.mu = <<"caller", k>>, !.dt = INFINITY, !.ver = @ + 1]
            /\ tp' = [tp EXCEPT !.call[k].pc = "drain", !.call[k].canceled = TRUE]
    /\ UNCHANGED chanside

\* while c.len() > 0: the test; with an empty c: unlock and return
drain(k) ==
    /\ tp.call[k].pc = "drain"
    /\ IF chan_len > 0
       THEN /\ tp' = [tp EXCEPT !.call[k].pc = "drain_recv"]
            /\ UNCHANGED tm
       ELSE /\ tm' = [tm EXCEPT !.mu = Free]
            /\ tp' = [TimeReturn(k, "stop",
                                 IF tm.kind = "ticker" THEN "None"
                                 ELSE IF tp.call[k].canceled THEN "True" ELSE "False", 0)
                        EXCEPT !.since = "stop"]
    /\ UNCHANGED chanside

\* while c.len() > 0: the c.recv() of the loop body
drain_recv(k) ==
    /\ tp.call[k].pc = "drain_recv"
    /\ chan_canrecv
    /\ tm' = [tm EXCEPT !.c = Tail(@)]
    /\ tp' = [tp EXCEPT !.call[k].pc = "drain"]
    /\ UNCHANGED chanside

\* a faulty variant: reset arms the timer without looking at _dt
Timer_reset_unchecked(k) ==
    /\ tp.call[k].pc = "reset"
    /\ tm.mu = Free
    /\ tm' = [tm EXCEPT !.dt = Dt, !.ver = @ + 1]
    /\ tp' = [TimeReturn(k, "reset", "None", 0)
                EXCEPT !.fire[tm.ver + 1] = "sleep", !.since = "reset"]
    /\ UNCHANGED chanside

\* PyTimer._reset
Timer_reset(k) ==
    /\ tp.call[k].pc = "reset"
    /\ tm.mu = Free
    /\ IF tm.dt # INFINITY
       THEN /\ tp' = TimeReturn(k, "reset",
                        "Timer.reset: the timer is armed; must be stopped or expired", 0)
            /\ UNCHANGED tm
       ELSE /\ tm' = [tm EXCEPT !.dt = Dt, !.ver = @ + 1]
            /\ tp' = [TimeReturn(k, "reset", "None", 0)
                        EXCEPT !.fire[tm.ver + 1] = "sleep", !.since = "reset"]
    /\ UNCHANGED chanside

\* a faulty variant: the fire task fires whatever the version of the timer
Timer_fire_anyver(v) ==
    /\ tp.fire[v] = "sleep"
    /\ tm.mu = Free
    /\ IF ~tm.f
       THEN /\ tm' = [tm EXCEPT !.dt = INFINITY, !.mu = <<"fire", v>>]
            /\ tp' = [tp EXCEPT !.fire[v] = "send"]
       ELSE /\ tm' = [tm EXCEPT !.dt = INFINITY]
            /\ tp' = [tp EXCEPT !.fire[v] = "call"]
    /\ UNCHANGED chanside

\* a faulty variant: f is called with _mu held
Timer_fire_locked(v) ==
    /\ tp.fire[v] = "sleep"
    /\ tm.mu = Free
    /\ IF tm.ver # v
       THEN /\ tp' = [tp EXCEPT !.fire[v] = "cancelled"]
            /\ UNCHANGED tm
       ELSE IF ~tm.f
       THEN /\ tm' = [tm EXCEPT !.dt = INFINITY, !.mu = <<"fire", v>>]
            /\ tp' = [tp EXCEPT !.fire[v] = "send"]
       ELSE /\ tm' = [tm EXCEPT !.dt = INFINITY, !.mu = <<"fire", v>>]
            /\ tp' = [tp EXCEPT !.fire[v] = "call"]
    /\ UNCHANGED chanside

\* PyTimer.___fire(dt, ver) from the end of sleep(dt) to c.send or to the call of f
Timer_fire(v) ==
    /\ tp.fire[v] = "sleep"
    /\ tm.mu = Free
    /\ IF tm.ver # v
       THEN /\ tp' = [tp EXCEPT !.fire[v] = "cancelled"]
            /\ UNCHANGED tm
       ELSE IF ~tm.f
       THEN /\ tm' = [tm EXCEPT !.dt = INFINITY, !.mu = <<"fire", v>>]
            /\ tp' = [tp EXCEPT !.fire[v] = "send"]
       ELSE /\ tm' = [tm EXCEPT !.dt = INFINITY]
            /\ tp' = [tp EXCEPT !.fire[v] = "call"]
    /\ UNCHANGED chanside

\* PyTimer.___fire: c.send(now()) under _mu, then unlock
Timer_fire_send(v) ==
    /\ tp.fire[v] = "send"
    /\ chan_cansend
    /\ tm' = [tm EXCEPT !.c = Append(@, v), !.mu = Free]
    /\ tp' = [tp EXCEPT !.fire[v] = "sent"]
    /\ UNCHANGED chanside

\* the task in which the f of the fire task of version v makes its calls
FTask(v) == NCallers + v

\* PyTimer.___fire: the call of f, outside _mu, up to its return
Timer_fire_call(v) ==
    /\ tp.fire[v] = "call"
    /\ (FTask(v) \in DOMAIN tp.call) => (tp.call[FTask(v)].pc = "idle")
    /\ tp' = [tp EXCEPT !.fire[v] = "called"]
    /\ UNCHANGED <<tm, chanside>>

\* f, called by the fire task of version v, calls stop or reset on its timer
f_calls(v) ==
    /\ tp.fire[v] = "call"
    /\ FTask(v) \in DOMAIN tp.call
    /\ TimeCall(FTask(v), {"stop", "reset"})

\* a task receives from the c of the timer or ticker
chan_recv(k) ==
    /\ tp.call[k].pc = "recv"
    /\ chan_canrecv
    /\ tm' = [tm EXCEPT !.c = Tail(@)]
    /\ tp' = TimeReturn(k, "recv", "ok", Head(tm.c))
    /\ UNCHANGED chanside

\* a faulty variant: stop drains c, but does not set __stop
Ticker_stop_unset(k) ==
    /\ tp.call[k].pc = "stop"
    /\ tm.mu = Free
    /\ tm' = [tm EXCEPT !.mu = <<"caller", k>>]
    /\ tp' = [tp EXCEPT !.call[k].pc = "drain"]
    /\ UNCHANGED chanside

\* PyTicker._stop, up to the drain loop
Ticker_stop(k) ==
    /\ tp.call[k].pc = "stop"
    /\ tm.mu = Free
    /\ tm' = [tm EXCEPT !.mu = <<"caller", k>>, !.stop = TRUE]
    /\ tp' = [tp EXCEPT !.call[k].pc = "drain"]
    /\ UNCHANGED chanside

\* PyTicker.___tick from the end of sleep(dt) to the select
Ticker_tick ==
    /\ tp.tick.pc = "sleep"
    /\ tm.mu = Free
    /\ tm.stop \/ tp.tick.n < MaxTicks
    /\ IF tm.stop
       THEN /\ tp' = [tp EXCEPT !.tick.pc = "returned"]
            /\ UNCHANGED tm
       ELSE /\ tm' = [tm EXCEPT !.mu = <<"tick", 0>>]
            /\ tp' = [tp EXCEPT !.tick.pc = "select", !.tick.n = @ + 1]
    /\ UNCHANGED chanside

\* a faulty variant: the tick is sent with a plain c.send(t), without default
Ticker_select_send ==
    /\ tp.tick.pc = "select"
    /\ chan_cansend
    /\ tm' = [tm EXCEPT !.c = Append(@, tp.tick.n), !.mu = Free]
    /\ tp' = [tp EXCEPT !.tick.pc = "sleep", !.tick.sel = 1]
    /\ UNCHANGED chanside

\* PyTicker.___tick: select([default, c.sends(&t)]), then unlock
Ticker_select ==
    /\ tp.tick.pc = "select"
    /\ IF chan_cansend
       THEN /\ tm' = [tm EXCEPT !.c = Append(@, tp.tick.n), !.mu = Free]
            /\ tp' = [tp EXCEPT !.tick.pc = "sleep", !.tick.sel = 1]
       ELSE /\ tm' = [tm EXCEPT !.mu = Free]
            /\ tp' = [tp EXCEPT !.tick.pc = "sleep", !.tick.sel = 0]
    /\ UNCHANGED chanside

\* --- the timer scenario: PyTimer(dt, f) was constructed, with f or without ---
NoChanTasks == [t \in Tasks |-> 0]
NoChanMenus == [t \in Tasks |-> {}]

InitTimer ==
    /\ InitChans(FreeCaps, NoScripts, NoChanTasks, NoChanMenus, FALSE)
    /\ \E f \in BOOLEAN :
          tm = [kind |-> "timer", f |-> f, c |-> <<>>, mu |-> Free,
                dt |-> Dt, ver |-> 1, stop |-> FALSE]
    /\ tp = [call |-> [k \in Callers |-> IdleCall],
             fire |-> [v \in 1..MaxVer |-> IF v = 1 THEN "sleep" ELSE ""],
             tick |-> <<>>, since |-> "reset"]

NextTimer ==
    \/ \E k \in Callers :
          \/ TimeCall(k, {"stop", "reset", "recv"})
          \/ Timer_stop(k)
          \/ drain(k)
          \/ drain_recv(k)
          \/ Timer_reset(k)
          \/ chan_recv(k)
    \/ \E v \in 1..MaxVer :
          \/ Timer_fire(v)
          \/ Timer_fire_send(v)
          \/ Timer_fire_call(v)

SpecTimer == InitTimer /\ [][NextTimer]_vars

\* every task that is at a step takes it at some time (calls are not forced)
CallerStep(k) ==
    Timer_stop(k) \/ drain(k) \/ drain_recv(k) \/ Timer_reset(k) \/ chan_recv(k)

FireStep(v) == Timer_fire(v) \/ Timer_fire_send(v) \/ Timer_fire_call(v)

FairTimer ==
    /\ \A k \in Callers : WF_vars(CallerStep(k))
    /\ \A v \in 1..MaxVer : WF_vars(FireStep(v))

SpecTimerFair == InitTimer /\ [][NextTimer]_vars /\ FairTimer

\* --- the timer scenario in which f calls stop or reset on its own timer ---
FTasks == {FTask(v) : v \in 1..MaxCalls}

InitTimerF ==
    /\ InitChans(FreeCaps, NoScripts, NoChanTasks, NoChanMenus, FALSE)
    /\ \E f \in BOOLEAN :
          tm = [kind |-> "timer", f |-> f, c |-> <<>>, mu |-> Free,
                dt |-> Dt, ver |-> 1, stop |-> FALSE]
    /\ tp = [call |-> [k \in Callers \cup FTasks |->
                          IF k \in Callers THEN IdleCall ELSE [IdleCall EXCEPT !.left = 1]],
             fire |-> [v \in 1..MaxVer |-> IF v = 1 THEN "sleep" ELSE ""],
             tick |-> <<>>, since |-> "reset"]

NextTimerF ==
    \/ \E k \in Callers : TimeCall(k, {"stop", "reset", "recv"})
    \/ \E k \in Callers \cup FTasks :
          \/ Timer_stop(k)
          \/ drain(k)
          \/ drain_recv(k)
          \/ Timer_reset(k)
          \/ chan_recv(k)
    \/ \E v \in 1..MaxVer :
          \/ Timer_fire(v)
          \/ Timer_fire_send(v)
          \/ f_calls(v)
          \/ Timer_fire_call(v)

FairTimerF ==
    /\ \A k \in Callers \cup FTasks : WF_vars(CallerStep(k))
    /\ \A v \in 1..MaxVer : WF_vars(FireStep(v))

SpecTimerF == InitTimerF /\ [][NextTimerF]_vars /\ FairTimerF

\* --- the ticker scenario: PyTicker(dt) was constructed ---
InitTicker ==
    /\ InitChans(FreeCaps, NoScripts, NoChanTasks, NoChanMenus, FALSE)
    /\ tm = [kind |-> "ticker", f |-> FALSE, c |-> <<>>, mu |-> Free,
             dt |-> Dt, ver |-> 0, stop |-> FALSE]
    /\ tp = [call |-> [k \in Callers |-> IdleCall], fire |-> <<>>,
             tick |-> [pc |-> "sleep", n |-> 0, sel |-> 0], since |-> ""]

NextTicker ==
    \/ \E k \in Callers :
          \/ TimeCall(k, {"stop", "recv"})
          \/ Ticker_stop(k)
          \/ drain(k)
          \/ drain_recv(k)
          \/ chan_recv(k)
    \/ Ticker_tick
    \/ Ticker_select

SpecTicker == InitTicker /\ [][NextTicker]_vars

\* ======================= properties =======================

\* a waiter reference w is queued although its group is already decided
Stale(w) == which[w.g] # None /\ which[w.g] # w.k

QueuedOn(ch) ==
    {sendq[ch][i] : i \in 1..Len(sendq[ch])} \cup {recvq[ch][i] : i \in 1..Len(recvq[ch])}

\* C1: whenever the mutex of a channel is free, its sendq or its recvq is empty, its
\* buffer holds at most capacity values, and a synchronous channel buffers nothing.
C1_QueuesAndBuffer ==
    \A ch \in Chans :
        mu[ch] = NoTask =>
            /\ sendq[ch] = <<>> \/ recvq[ch] = <<>>
            /\ Len(dataq[ch]) <= cap[ch]
            /\ cap[ch] = 0 => dataq[ch] = <<>>

\* a full buffer with a parked sender, while another channel holds a parked receiver
C1_Witness ==
    \E ch \in Chans, c2 \in Chans :
        /\ ch # c2
        /\ mu[ch] = NoTask /\ mu[c2] = NoTask
        /\ cap[ch] > 0 /\ Len(dataq[ch]) = cap[ch] /\ sendq[ch] # <<>>
        /\ recvq[c2] # <<>>

\* C2: whenever the mutex of a channel is free, also with waiters of decided select
\* groups still queued: a non-full buffer means an empty sendq, a non-empty buffer
\* means an empty recvq, and a closed channel has both queues empty.
C2_BufferVersusQueues ==
    \A ch \in Chans :
        mu[ch] = NoTask =>
            /\ Len(dataq[ch]) < cap[ch] => sendq[ch] = <<>>
            /\ dataq[ch] # <<>> => recvq[ch] = <<>>
            /\ closed[ch] => sendq[ch] = <<>> /\ recvq[ch] = <<>>

\* a waiter of a decided select group is still queued on a channel whose mutex is free
C2_Witness ==
    \E ch \in Chans :
        /\ mu[ch] = NoTask
        /\ \E w \in QueuedOn(ch) : Stale(w) /\ loc[w.g].kind = "select"

\* the last result a task logged
Last(h) == h[Len(h)]

Elems(queue) == {queue[i] : i \in 1..Len(queue)}

\* the step is one of task t
Stepped(t) == pc'[t] # pc[t] \/ loc'[t] # loc[t]

\* the step leaves the state of channel ch as it was, with its mutex free
ChanUntouched(ch) ==
    /\ dataq'[ch] = dataq[ch] /\ recvq'[ch] = recvq[ch] /\ sendq'[ch] = sendq[ch]
    /\ closed'[ch] = closed[ch]
    /\ mu'[ch] = NoTask

\* the original statement of C3: a recv_() that starts after close() has completed
\* returns (zero, ok=false) without blocking
C3_ClosedRecvZero ==
    [][\A t \in Tasks :
        (pc[t] = "recv_acq" /\ loc[t].ch \in loc[t].after /\ pc'[t] # "recv_acq") =>
            /\ pc'[t] = "idle"
            /\ Last(hist'[t]).rx_ = <<None, FALSE>>]_vars

\* C3: a recv_() that starts after close() has completed returns without blocking:
\* the oldest buffered value with ok=true while the buffer holds values, and
\* (zero, ok=false) once the buffer is empty.
C3_ClosedRecvDrains ==
    [][\A t \in Tasks :
        (pc[t] = "recv_acq" /\ loc[t].ch \in loc[t].after /\ pc'[t] # "recv_acq") =>
            /\ pc'[t] = "idle"
            /\ Last(hist'[t]).st = "ok"
            /\ Last(hist'[t]).rx_ =
                    IF dataq[loc[t].ch] = <<>>
                    THEN <<None, FALSE>>
                    ELSE <<Head(dataq[loc[t].ch]), TRUE>>
            /\ dataq'[loc[t].ch] = IF dataq[loc[t].ch] = <<>> THEN <<>>
                                   ELSE Tail(dataq[loc[t].ch])]_vars

\* a recv_() that started after close() had completed has returned (zero, ok=false)
C3_Witness ==
    \E t \in Tasks :
        /\ pc[t] = "idle" /\ hist[t] # <<>>
        /\ Last(hist[t]).kind = "recv_"
        /\ Last(hist[t]).ch \in Last(hist[t]).after
        /\ Last(hist[t]).rx_ = <<None, FALSE>>

\* the step of task t tries a send on channel ch: pychan.send, or a send case
\* that pyselect polls in its first or in its second pass
PolledSend(t, ch) ==
    \/ pc[t] = "send_acq" /\ loc[t].ch = ch
    \/ /\ pc[t] = "sel1" /\ loc[t].i <= Len(loc[t].ncasev)
       /\ loc[t].ncasev[loc[t].i].kind = "send" /\ loc[t].ncasev[loc[t].i].ch = ch
    \/ /\ pc[t] = "sel2" /\ which[t] = None
       /\ Subs(loc[t])[loc[t].i].kind = "send" /\ Subs(loc[t])[loc[t].i].ch = ch

\* the step ends the call of task t with the panic msg, at once or, for a select
\* that has waiters queued, after its dequeAll
Panicked(t, msg) ==
    \/ pc'[t] = "idle" /\ Last(hist'[t]).st = "panic" /\ Last(hist'[t]).msg = msg
    \/ pc'[t] = "dequeAll" /\ loc'[t].pend.st = "panic" /\ loc'[t].pend.msg = msg

\* dequeAll keeps the pending outcome of its select and ends by delivering it
PendingIsDelivered ==
    \A t \in Tasks :
        (pc[t] = "dequeAll" /\ Stepped(t)) =>
            IF pc'[t] = "idle" THEN Last(hist'[t]) = loc[t].pend
            ELSE pc'[t] = "dequeAll" /\ loc'[t].pend = loc[t].pend

\* C4: the closed flag never becomes false again; once close() has completed on a
\* channel, every send on it (pychan.send or a polled send case of select) signals
\* "send on closed channel" and every close signals "close of closed channel",
\* leaving buffer, queues and closed flag as they were and the mutex released.
C4_ClosedIsFinal ==
    [][/\ \A ch \in Chans : closed[ch] => closed'[ch]
       /\ \A t \in Tasks, ch \in Chans :
            (CloseCompleted(ch) /\ Stepped(t)) =>
                /\ PolledSend(t, ch) =>
                        Panicked(t, "send on closed channel") /\ ChanUntouched(ch)
                /\ (pc[t] = "close_acq" /\ loc[t].ch = ch) =>
                        /\ pc'[t] = "idle"
                        /\ Panicked(t, "close of closed channel")
                        /\ ChanUntouched(ch)
                /\ (pc[t] = "dequeAll" /\ loc[t].pend.st = "panic") => ChanUntouched(ch)
       /\ PendingIsDelivered]_vars

\* a select has signalled "send on closed channel" and another task's close has
\* signalled "close of closed channel"
C4_Witness ==
    \E t \in Tasks, u \in Tasks :
        /\ pc[t] = "idle" /\ hist[t] # <<>>
        /\ Last(hist[t]).kind = "select" /\ Last(hist[t]).st = "panic"
        /\ Last(hist[t]).msg = "send on closed channel"
        /\ pc[u] = "idle" /\ hist[u] # <<>>
        /\ Last(hist[u]).kind = "close" /\ Last(hist[u]).st = "panic"
        /\ Last(hist[u]).msg = "close of closed channel"

\* waiter w can still win its group
Eligible(w) == which[w.g] = None

\* in this step waiter w wins its group
WinsNow(w) == which[w.g] = None /\ which'[w.g] = w.k

\* no waiter of the queue overtakes an eligible waiter queued before it
InOrder(queue, queue2) ==
    \A j \in 1..Len(queue) :
        WinsNow(queue[j]) =>
            \A i \in 1..(j - 1) :
                Eligible(queue[i]) => queue[i] \notin Elems(queue2)

\* C8: waiters of one queue are served in the order they were enqueued: when a
\* step makes a queued waiter win, no waiter that was queued before it and can
\* still win is left in the queue.
C8_WaitersFifo ==
    [][\A ch \in Chans :
        /\ InOrder(recvq[ch], recvq'[ch])
        /\ InOrder(sendq[ch], sendq'[ch])]_vars

\* a close in progress has served the reader queued first, while a reader that
\* was queued behind it and can still win is waiting for its turn
C8_Witness ==
    \E p \in Tasks :
        /\ pc[p] = "deq" /\ loc[p].ctx = "close_r"
        /\ loc[p].wrecvv # <<>>
        /\ \E w \in Elems(recvq[loc[p].ch]) : Eligible(w)

\* task t has a waiter registered on channel ch and waits for its group
ParkedOn(t, ch) ==
    /\ pc[t] \in {"send_wait", "recv_wait", "sel_wait"}
    /\ \E k \in 1..Len(waitv[t]) : waitv[t][k].chan = ch

\* a close still in progress holds the wakeup of waiter w
WakeupScheduled(w) ==
    \E p \in Tasks :
        /\ pc[p] = "deq" /\ loc[p].kind = "close"
        /\ w \in Elems(loc[p].wrecvv) \cup Elems(loc[p].wsendv)

\* no task stays parked on a channel whose close() has completed
NoneLeftParked ==
    \A ch \in Chans, t \in Tasks :
        (CloseCompleted(ch) /\ ParkedOn(t, ch)) =>
            /\ which[t] # None
            /\ sema[t] = 1 \/ WakeupScheduled([g |-> t, k |-> which[t]])
            /\ pc[t] # "sel_wait" => sema[t] = 1

\* the waiters a close drains: those it has collected, and the eligible ones
\* still queued when it takes its last step
Drained(p) ==
    Elems(loc[p].wrecvv) \cup Elems(loc[p].wsendv)
        \cup {w \in QueuedOn(loc[p].ch) : Eligible(w)}

\* the step that completes close() wakes every drained waiter with failure
CloseWakesAll ==
    \A p \in Tasks :
        (loc[p].kind = "close" /\ pc[p] \in {"close_acq", "deq"} /\ pc'[p] = "idle"
            /\ Last(hist'[p]).st = "ok") =>
            \A w \in Drained(p) :
                /\ which'[w.g] = w.k
                /\ sema'[w.g] = 1
                /\ waitv'[w.g][w.k].chan = loc[p].ch
                /\ IF waitv'[w.g][w.k].kind = "recv"
                   THEN waitv'[w.g][w.k].rx_ = <<None, FALSE>>
                   ELSE waitv'[w.g][w.k].ok = FALSE

\* a woken task returns what its waiter was woken with
WokenReturns ==
    \A t \in Tasks :
        /\ (pc[t] = "recv_wait" /\ Stepped(t)) =>
                pc'[t] = "idle" /\ Last(hist'[t]).rx_ = waitv[t][1].rx_
        /\ (pc[t] = "send_wait" /\ Stepped(t)) =>
                /\ pc'[t] = "idle"
                /\ IF waitv[t][1].ok THEN Last(hist'[t]).st = "ok"
                   ELSE Panicked(t, "send on closed channel")
        /\ (pc[t] = "sel_wait" /\ Stepped(t)) =>
                LET sel == waitv[t][which[t]]
                    r   == IF pc'[t] = "idle" THEN Last(hist'[t]) ELSE loc'[t].pend
                IN  /\ pc'[t] \in {"idle", "dequeAll"}
                    /\ IF sel.kind = "recv"
                       THEN r.st = "ok" /\ r.n = sel.sel_n
                            /\ r.rx_ = SelRx(sel.sel_commaok, sel.rx_)
                       ELSE IF sel.ok THEN r.st = "ok" /\ r.n = sel.sel_n
                       ELSE Panicked(t, "send on closed channel")

\* C9: close() wakes every task parked on the channel: each drained receiver is
\* woken with (zero, ok=false) and returns it, each drained sender is woken with
\* failure and signals "send on closed channel", and no task stays parked on a
\* channel whose close() has completed.
C9_CloseWakesEveryone ==
    /\ []NoneLeftParked
    /\ [][CloseWakesAll /\ WokenReturns /\ PendingIsDelivered]_vars

\* a close has completed that woke a parked recv_ and a parked select together
C9_Witness ==
    \E ch \in Chans, t \in Tasks, u \in Tasks :
        /\ CloseCompleted(ch)
        /\ pc[t] = "recv_wait" /\ loc[t].ch = ch
        /\ sema[t] = 1 /\ waitv[t][1].rx_ = <<None, FALSE>>
        /\ pc[u] = "sel_wait" /\ sema[u] = 1
        /\ waitv[u][which[u]].chan = ch
        /\ waitv[u][which[u]].kind = "recv" /\ waitv[u][which[u]].rx_ = <<None, FALSE>>

\* ---- logs of a scenario ----
\* the values of the sends of task t that returned normally
SentOk(t) ==
    {hist[t][i].obj : i \in {j \in 1..Len(hist[t]) :
                                hist[t][j].kind = "send" /\ hist[t][j].st = "ok"}}

\* the values task t is about to report as sent: its parked send was woken with ok
Handed(t) ==
    IF pc[t] = "send_wait" /\ waitv[t][1].ok THEN {waitv[t][1].obj} ELSE {}

\* the positions in the log of task t of the recv_ that returned ok=true
RecvOk(t) ==
    {i \in 1..Len(hist[t]) : hist[t][i].kind = "recv_" /\ hist[t][i].rx_[2]}

\* the value a sender put into the slot of the parked recv_ of task t, if any
InSlot(t) ==
    IF pc[t] = "recv_wait" /\ waitv[t][1].rx_ # <<>> /\ waitv[t][1].rx_[2]
    THEN {waitv[t][1].rx_[1]} ELSE {}

\* C5: on the buffered channel that task 1 fills and task 3 closes, the recv_ loop
\* of task 2 returns the values in the order sent with ok=true, then (zero, ok=false)
\* and nothing else any more; it returns ok=false only when every value whose
\* send succeeded has been received, so none that was buffered at close is lost.
C5_ClosedDrain ==
    LET log == hist[2]
    IN  \A i \in 1..Len(log) :
            IF log[i].rx_[2]
            THEN /\ log[i].rx_[1] = i
                 /\ \A j \in 1..(i - 1) : log[j].rx_[2]
            ELSE /\ log[i].rx_ = <<None, FALSE>>
                 /\ closed[1]
                 /\ \A j \in (i + 1)..Len(log) : log[j].rx_ = <<None, FALSE>>
                 /\ SentOk(1) \cup Handed(1) \subseteq {log[j].rx_[1] : j \in 1..(i - 1)}

\* two values that were buffered when close() completed were received after it
\* in order, and the recv_ after them returned (zero, ok=false) twice
C5_Witness ==
    \E i \in 1..Len(hist[2]) :
        /\ i + 3 <= Len(hist[2])
        /\ hist[2][i].rx_[2] /\ 1 \in hist[2][i].after
        /\ hist[2][i + 1].rx_[2] /\ 1 \in hist[2][i + 1].after
        /\ hist[2][i + 2].rx_ = <<None, FALSE>>
        /\ hist[2][i + 3].rx_ = <<None, FALSE>>

\* C6: on the synchronous channel, whatever the tasks do: no value is received
\* twice, and the values of the sends that returned normally (or whose parked
\* sender is woken with success) are exactly the values received with ok=true
\* (or put into the slot of a parked receiver).
C6_SyncExactlyOnce ==
    LET received == UNION {{hist[t][i].rx_[1] : i \in RecvOk(t)} \cup InSlot(t) : t \in Tasks}
        sent     == UNION {SentOk(t) \cup Handed(t) : t \in Tasks}
        count(n, t) == Cardinality(RecvOk(t)) + Cardinality(InSlot(t)) + n
        RECURSIVE sum(_)
        sum(ts) == IF ts = {} THEN 0
                   ELSE LET t == CHOOSE u \in ts : TRUE IN count(sum(ts \ {t}), t)
    IN  /\ received = sent
        /\ sum(Tasks) = Cardinality(received)

\* every task is done; two sends returned normally, and one task both sent and received
C6_Witness ==
    /\ \A t \in Tasks : pc[t] = "idle" /\ Choices(t) = {}
    /\ Cardinality(UNION {SentOk(t) : t \in Tasks}) = 2
    /\ \E t \in Tasks : Cardinality(SentOk(t)) = 1 /\ Cardinality(RecvOk(t)) = 1

\* C7: on a buffered channel of any capacity with one sender issuing 1, 2, ..., n
\* and one receiver, the receiver observes 1, 2, ... in that order with ok=true,
\* all n of them when both are done; nothing is pending out of order.
C7_BufferedFifo ==
    LET log  == hist[2]
        slot == IF InSlot(2) = {} THEN <<>> ELSE <<waitv[2][1].rx_[1]>>
        parked == IF pc[1] = "send_wait" /\ ~waitv[1][1].ok THEN <<waitv[1][1].obj>>
                  ELSE <<>>
        taken  == IF pc[2] = "deq" THEN <<loc[2].rx>> ELSE <<>>
        flight == [i \in 1..Len(log) |-> log[i].rx_[1]] \o slot \o taken
                      \o dataq[1] \o parked
    IN  /\ \A i \in 1..Len(log) : log[i].rx_ = <<i, TRUE>>
        /\ \A i \in 1..Len(flight) : flight[i] = i
        /\ (\A t \in Tasks : pc[t] = "idle" /\ Choices(t) = {}) => Len(log) = NFifo

\* the sender parked on the full buffer and a recv moved its value into the buffer
C7_Witness ==
    /\ pc[1] = "send_wait" /\ sema[1] = 1 /\ waitv[1][1].ok
    /\ Len(dataq[1]) = cap[1]
    /\ Last(dataq[1]) = waitv[1][1].obj
    /\ hist[2] # <<>>

\* ---- the nil channel ----
\* task t starts an operation in this step
Started(t) == pc[t] = "idle" /\ (budget'[t] # budget[t] \/ script'[t] # script[t])

\* every case of the running select of task t is a nil-channel case or a default
OnlyNil(t) ==
    \A i \in 1..Len(loc[t].ncasev) : loc[t].ncasev[i].ch = pynilchan

Defaults(t) ==
    {i \in 1..Len(loc[t].ncasev) : loc[t].ncasev[i].kind = "default"}

\* no code that works on a channel's state ever runs with the nil channel
NilHasNoState ==
    \A t \in Tasks :
        /\ pc[t] \in {"send_acq", "recv_acq", "close_acq", "send_wait", "recv_wait", "deq"}
                => loc[t].ch # pynilchan
        /\ \A k \in 1..Len(waitv[t]) : waitv[t][k].chan # pynilchan
        /\ pc[t] = "blocked" => (loc[t].kind = "select" /\ OnlyNil(t) /\ Defaults(t) = {})
                                \/ (loc[t].kind \in {"send", "recv_"} /\ loc[t].ch = pynilchan)

\* what the steps of nil-channel operations do
NilSteps ==
    \A t \in Tasks :
        \* _blockforever() never returns
        /\ pc[t] = "blocked" => pc'[t] = "blocked" /\ hist'[t] = hist[t]
        \* send and recv_ block at once, close panics at once, nothing is touched
        /\ (Started(t) /\ loc'[t].kind \in {"send", "recv_"} /\ loc'[t].ch = pynilchan) =>
                pc'[t] = "blocked" /\ UNCHANGED <<chanvars, groupvars>>
        /\ (Started(t) /\ pc'[t] = "idle") =>
                /\ Last(hist'[t]).kind = "close" /\ Last(hist'[t]).ch = pynilchan
                /\ Last(hist'[t]).st = "panic"
                /\ Last(hist'[t]).msg = "close of nil channel"
                /\ UNCHANGED <<chanvars, groupvars>>
        \* a select does not return the number of a nil-channel case
        /\ (loc[t].kind = "select" /\ pc'[t] = "idle" /\ Last(hist'[t]).st = "ok") =>
                \E i \in 1..Len(loc[t].ncasev) :
                    /\ loc[t].ncasev[i].n = Last(hist'[t]).n
                    /\ loc[t].ncasev[i].kind = "default" \/ loc[t].ncasev[i].ch # pynilchan
        \* a select of nil-channel cases only touches nothing; at its end it blocks
        \* forever, or returns the number of its default
        /\ (loc[t].kind = "select" /\ OnlyNil(t) /\ Stepped(t)) =>
                /\ UNCHANGED <<chanvars, groupvars>>
                /\ IF loc[t].i <= Len(loc[t].ncasev)
                   THEN pc'[t] = "sel1" /\ loc'[t].i = loc[t].i + 1
                   ELSE IF Defaults(t) = {}
                   THEN pc'[t] = "blocked"
                   ELSE /\ pc'[t] = "idle"
                        /\ Last(hist'[t]).st = "ok"
                        /\ \E i \in Defaults(t) : loc[t].ncasev[i].n = Last(hist'[t]).n

\* C10: on the nil channel send and recv_ never return and change no state, close
\* signals "close of nil channel"; a select never selects a nil-channel case: with
\* nil-channel cases only it blocks forever, and with a default besides them it
\* returns the number of the default.
C10_NilChannel ==
    /\ []NilHasNoState
    /\ [][NilSteps]_vars

\* a select of nil-channel cases only blocks forever after its last operation
\* returned the default of a select whose other case is a nil-channel send
C10_Witness ==
    \E t \in Tasks :
        /\ pc[t] = "blocked" /\ loc[t].kind = "select"
        /\ Len(loc[t].ncasev) = 2
        /\ hist[t] # <<>>
        /\ Last(hist[t]).kind = "select" /\ Last(hist[t]).n = 1

\* ---- select with a default ----
\* the step of task t belongs to the poll of a case that goes through: the case
\* completes in this step, or it has taken its place in the buffer and is
\* looking for a waiter to hand over to
CaseGoesThrough(t) ==
    \/ pc'[t] = "deq" /\ loc'[t].ctx \in {"send_buf", "recv_buf"}
    \/ /\ pc'[t] = "idle"
       /\ Last(hist'[t]).st = "panic" \/ Last(hist'[t]).n \notin {loc[t].ncasev[i].n : i \in Defaults(t)}

\* the queue is left as it was but for waiters of already decided groups
OnlyStaleDropped(queue, queue2) ==
    /\ queue2 = SelectSeq(queue, LAMBDA w : w \in Elems(queue2))
    /\ \A w \in Elems(queue) \ Elems(queue2) : ~Eligible(w)

\* what a step of a select with a default leaves alone while no case goes through
DefaultFrame(t, exact) ==
    (loc[t].kind = "select" /\ Defaults(t) # {} /\ Stepped(t) /\ ~CaseGoesThrough(t)) =>
        /\ pc'[t] \in {"sel1", "deq", "idle"}
        /\ waitv' = waitv /\ which' = which /\ sema' = sema
        /\ dataq' = dataq /\ closed' = closed
        /\ \A ch \in Chans :
            IF exact
            THEN recvq'[ch] = recvq[ch] /\ sendq'[ch] = sendq[ch]
            ELSE /\ OnlyStaleDropped(recvq[ch], recvq'[ch])
                 /\ OnlyStaleDropped(sendq[ch], sendq'[ch])
        /\ pc'[t] = "idle" =>
            /\ \A ch \in Chans : mu'[ch] # t
            /\ loc[t].i > Len(loc[t].ncasev)
            /\ Last(hist'[t]).st = "ok"
            /\ Last(hist'[t]).n = loc[t].ndefault
            /\ Last(hist'[t]).rx_ = <<>>
            /\ \E i \in Defaults(t) : loc[t].ncasev[i].n = loc[t].ndefault

\* the original statement of C11: a select with a default whose other cases are
\* not ready returns the default and leaves buffer, sendq, recvq and closed flag of
\* every channel unchanged
C11_DefaultLeavesQueues ==
    [][\A t \in Tasks : DefaultFrame(t, TRUE)]_vars

\* C11: a select with a default whose other cases are not ready returns (index of
\* the default, None) without parking and without enqueuing a waiter; it leaves
\* buffer and closed flag of every channel unchanged, and sendq and recvq unchanged
\* but for waiters of already decided select groups, which its polls discard.
C11_DefaultFrame ==
    [][\A t \in Tasks : DefaultFrame(t, FALSE)]_vars

\* a select with a default has polled its two other cases, none was ready, and
\* it is about to return the default
C11_Witness ==
    \E t \in Tasks :
        /\ pc[t] = "sel1" /\ loc[t].i > Len(loc[t].ncasev)
        /\ Len(loc[t].ncasev) = 3
        /\ loc[t].ndefault = 2
        /\ Len(loc[t].sendv) = 1 /\ Len(loc[t].recvv) = 1

\* ---- select without default ----
\* a case of the running select of task t is decided: a peer took one of its
\* queued waiters, or its second pass found a case ready
Decided(t) ==
    /\ loc[t].kind = "select"
    /\ pc[t] \in {"sel2", "sel_wait", "dequeAll"}
    /\ which[t] # None

\* n is the index, in the case list the task passed to select, of a case of
\* direction kind on channel ch
OriginalCase(t, n, kind, ch) ==
    \E o \in menu[t] :
        /\ Len(o.casev) = Len(loc[t].ncasev)
        /\ \A i \in 1..Len(o.casev) :
            /\ o.casev[loc[t].ncasev[i].n + 1].kind = loc[t].ncasev[i].kind
            /\ o.casev[loc[t].ncasev[i].n + 1].ch = loc[t].ncasev[i].ch
        /\ n + 1 \in 1..Len(o.casev)
        /\ o.casev[n + 1].ch = ch
        /\ (o.casev[n + 1].kind = "send") = (kind = "send")

\* a parked select stays parked as long as none of its cases is decided
ParkedUntilDecided ==
    \A t \in Tasks : (pc[t] = "sel_wait" /\ which[t] = None) => sema[t] = 0

\* a select woken from its wait returns the original index of the case whose
\* waiter was taken, and what that waiter was woken with
ReturnsTheWinner ==
    \A t \in Tasks :
        (pc[t] = "sel_wait" /\ Stepped(t)) =>
            LET sel == waitv[t][which[t]]
                r   == IF pc'[t] = "idle" THEN Last(hist'[t]) ELSE loc'[t].pend
            IN  /\ pc'[t] \in {"idle", "dequeAll"}
                /\ which[t] \in 1..Len(waitv[t])
                /\ OriginalCase(t, sel.sel_n, sel.kind, sel.chan)
                /\ IF sel.kind = "send" /\ ~sel.ok
                   THEN r.st = "panic" /\ r.msg = "send on closed channel"
                   ELSE r.st = "ok" /\ r.n = sel.sel_n

\* C12: a select without default whose cases are all not ready parks; under fair
\* scheduling, once a peer's send, recv or close has decided one of its cases it
\* returns, with the original index of that case.
C12_SelectWakes ==
    /\ []ParkedUntilDecided
    /\ [][ReturnsTheWinner /\ PendingIsDelivered]_vars
    /\ \A t \in Tasks : Decided(t) ~> (pc[t] = "idle")

\* a parked select was woken by the peer that took its second case, a send, and
\* has returned 1
C12_Witness ==
    \E t \in Tasks :
        /\ pc[t] = "idle" /\ hist[t] # <<>>
        /\ Last(hist[t]).kind = "select" /\ Last(hist[t]).st = "ok"
        /\ Last(hist[t]).n = 1
        /\ which[t] = 2 /\ waitv[t][2].kind = "send" /\ waitv[t][2].ok
        /\ sema[t] = 0

\* ---- one select, one case ----
\* waiter k of task t has been completed by a peer: its slot is filled
Completed(t, k) ==
    IF waitv[t][k].kind = "recv" THEN waitv[t][k].rx_ # <<>> ELSE waitv[t][k].ok

\* C13: a select executes exactly one case.  While it unsubscribes its waiters:
\* when it returns case n, either its second pass completed that case itself and
\* no waiter was taken, or the one waiter a peer took is the waiter of case n;
\* when it signals a panic, no waiter of it has transferred a value (the only
\* waiter taken, if any, is a send waiter woken by close with failure); and the
\* slots of all its other waiters are untouched.
C13_ExactlyOneCase ==
    \A t \in Tasks :
        pc[t] = "dequeAll" =>
            /\ IF loc[t].pend.st = "panic"
               THEN \/ which[t] = None
                    \/ /\ which[t] \in 1..Len(waitv[t])
                       /\ waitv[t][which[t]].kind = "send"
                       /\ ~waitv[t][which[t]].ok
               ELSE \/ which[t] = PrepollWon
                    \/ /\ which[t] \in 1..Len(waitv[t])
                       /\ waitv[t][which[t]].sel_n = loc[t].pend.n
            /\ \A k \in 1..Len(waitv[t]) : k # which[t] => ~Completed(t, k)

\* C14: a select whose case list holds more than one default performs no send and
\* no receive, whatever the order its cases are polled in, and ends by signalling
\* "pyselect: multiple default".
C14_MultipleDefault ==
    [][\A t \in Tasks :
        (loc[t].kind = "select" /\ Cardinality(Defaults(t)) > 1 /\ Stepped(t)) =>
            /\ dataq' = dataq
            /\ waitv' = waitv /\ which' = which /\ sema' = sema
            /\ pc'[t] \in {"sel1", "deq", "idle"}
            /\ pc'[t] = "idle" =>
                /\ Last(hist'[t]).st = "panic"
                /\ Last(hist'[t]).msg = "pyselect: multiple default"]_vars

\* ---- C15 ----
\* a value was sent on c in this step
SentOnC == Len(tm'.c) > Len(tm.c)

\* the last completed reset or stop was a stop
AfterStop == tp.since = "stop"

\* C15: whenever Timer.stop has returned and no reset has armed the timer since,
\* c holds no value; and a value is sent on c only by the fire task of the
\* current arming (its value is the version it was spawned with), never after a
\* stop has returned and before the next reset.
C15_EmptyAfterStop ==
    /\ [](AfterStop => tm.c = <<>>)
    /\ [][SentOnC => (Last(tm'.c) = tm.ver /\ ~AfterStop /\ ~AfterStop')]_vars

\* a stop has returned after one arming fired and another one was cancelled
C15_Witness ==
    /\ AfterStop
    /\ \E v \in 1..MaxVer : tp.fire[v] = "sent"
    /\ \E v \in 1..MaxVer : tp.fire[v] = "cancelled"
    /\ \E k \in Callers : tp.call[k].op = "stop" /\ tp.call[k].ret = "True"

\* ---- C16 ----
\* the timer is armed: the fire task of its last reset has neither fired nor
\* been cancelled by a stop
Armed == tp.fire[tm.ver] = "sleep"

\* the arming of version v was cancelled by a stop (a stop moves _ver to a
\* version for which no fire task was spawned)
Cancelled(v) == tp.fire[v] # "" /\ v < tm.ver /\ tp.fire[v + 1] = ""

\* task k takes the decision of its stop call in this step
StopDecides(k) == tp.call[k].pc = "stop" /\ tp'.call[k].pc = "drain"

\* the stop call of task k returns in this step
StopReturns(k) == tp.call[k].pc = "drain" /\ tp'.call[k].pc = "idle"

\* C16: Timer.stop returns true exactly when the timer was armed, and false
\* when it had expired or was stopped already; the fire task of an arming
\* that a stop cancelled never sends on c and never calls f, also after
\* later resets.
C16_StopCancels ==
    /\ [][\A k \in Callers :
            /\ StopDecides(k) => (tp'.call[k].canceled <=> Armed)
            /\ StopReturns(k) =>
                  tp'.call[k].ret = (IF tp.call[k].canceled THEN "True" ELSE "False")]_vars
    /\ [](\A v \in 1..MaxVer : Cancelled(v) => tp.fire[v] \in {"sleep", "cancelled"})

\* a stop returned true, the timer was reset and fired (calling f), and the
\* fire task of the cancelled arming has found itself cancelled
C16_Witness ==
    /\ tm.f
    /\ \E k \in Callers : tp.call[k].op = "stop" /\ tp.call[k].ret = "True"
    /\ \E v \in 1..MaxVer : Cancelled(v) /\ tp.fire[v] = "cancelled" /\ v + 1 < tm.ver
    /\ tp.fire[tm.ver] = "called"

\* ---- C17 ----
\* the reset call of task k completes in this step
ResetReturns(k) == tp.call[k].pc = "reset" /\ tp'.call[k].pc = "idle"

\* the versions for which a fire task was spawned
Spawned == {v \in 1..MaxVer : tp.fire[v] # ""}

\* the fire task of version v has fired: it found its version current,
\* disarmed the timer and went on to send on c or to call f
Fired(v) == tp.fire[v] \in {"send", "sent", "call", "called"}

\* C17: Timer.reset on an armed timer signals "Timer.reset: the timer is armed;
\* must be stopped or expired", spawns no fire task, leaves _dt and _ver as
\* they are and releases _mu.  Reset on a stopped or expired timer arms it,
\* increments _ver and spawns the one fire task of that arming; only reset
\* spawns fire tasks, a fire task fires at most once, and under fair
\* scheduling the fire task of an arming fires unless a stop cancels it.
C17_ResetArms ==
    /\ [][\A k \in Callers : ResetReturns(k) =>
            IF Armed
            THEN /\ tp'.call[k].ret =
                        "Timer.reset: the timer is armed; must be stopped or expired"
                 /\ Spawned' = Spawned
                 /\ tm'.dt = tm.dt /\ tm'.ver = tm.ver
                 /\ tm'.mu = Free
            ELSE /\ tp'.call[k].ret = "None"
                 /\ tm'.dt # INFINITY /\ tm'.ver = tm.ver + 1
                 /\ Spawned' = Spawned \cup {tm'.ver} /\ tm'.ver \notin Spawned
                 /\ Armed'
                 /\ tm'.mu = Free]_vars
    /\ [][/\ (Spawned' # Spawned) => (\E k \in Callers : ResetReturns(k))
          /\ \A v \in 1..MaxVer : Fired(v) => Fired(v)']_vars
    /\ \A v \in 1..MaxVer : (tp.fire[v] = "sleep") ~> (Fired(v) \/ Cancelled(v))

\* one reset was refused on the armed timer, and a later one armed the
\* timer after it had expired; that second arming has fired too
C17_Witness ==
    /\ \E k \in Callers :
          /\ tp.call[k].op = "reset"
          /\ tp.call[k].ret = "Timer.reset: the timer is armed; must be stopped or expired"
    /\ \E k \in Callers : tp.call[k].op = "reset" /\ tp.call[k].ret = "None"
    /\ Fired(1) /\ Fired(2)

\* ---- C18 ----
\* task k is inside a stop call
InStop(k) == tp.call[k].pc \in {"stop", "drain", "drain_recv"}

\* C18: under fair scheduling every call of Timer.stop returns a boolean,
\* whatever the fire tasks, the reset calls and the tasks receiving from c do.
C18_StopReturns ==
    \A k \in Callers :
        InStop(k) ~> (/\ tp.call[k].pc = "idle" /\ tp.call[k].op = "stop"
                      /\ tp.call[k].ret \in {"True", "False"})

\* ---- C19 ----
\* C19: once a Ticker.stop has returned, c is empty and stays empty: the tick
\* task is asleep or has returned, sends nothing any more, and returns at the
\* next step it takes.
C19_TickerStopped ==
    /\ [](AfterStop => (tm.c = <<>> /\ tp.tick.pc \in {"sleep", "returned"}))
    /\ [][AfterStop =>
            /\ AfterStop' /\ ~SentOnC
            /\ tp'.tick.n = tp.tick.n
            /\ (tp'.tick.pc # tp.tick.pc) => (tp'.tick.pc = "returned")]_vars

\* stop has drained a tick out of c and returned, and the tick task,
\* which had ticked more than once, has returned at its next wakeup
C19_Witness ==
    /\ AfterStop
    /\ tp.tick.pc = "returned" /\ tp.tick.n > 1
    /\ \A k \in Callers : tp.call[k].op # "recv" /\ tp.call[k].pc = "idle"

\* ---- C20 ----
\* the tick task makes its tick attempt in this step
TickAttempt == tp.tick.pc = "select" /\ tp'.tick.pc # "select"

\* C20: the tick task never blocks on c: its tick attempt can always be
\* taken, it drops the tick when c still holds an unreceived one and sends
\* it otherwise, c never holds more than one value, and the task holds _mu
\* exactly while it is at the attempt, releasing it with the attempt.
C20_TickNeverBlocks ==
    /\ [](/\ Len(tm.c) <= 1
          /\ (tp.tick.pc = "select") => ENABLED Ticker_select
          /\ (tm.mu = <<"tick", 0>>) <=> (tp.tick.pc = "select"))
    /\ [][TickAttempt =>
            /\ tm'.c = (IF tm.c # <<>> THEN tm.c ELSE <<tp.tick.n>>)
            /\ tm'.mu = Free
            /\ tp'.tick.pc = "sleep"]_vars

\* the second tick was dropped: the first one is still in c, and _mu is free
C20_Witness ==
    /\ tp.tick.pc = "sleep" /\ tp.tick.n = 2 /\ tp.tick.sel = 0
    /\ tm.c = <<1>>
    /\ tm.mu = Free

\* ---- C21 ----
\* C21: whenever a fire task is at its c.send(now()), holding _mu, c is empty
\* (so that the send completes without blocking).
C21_SendFindsEmpty ==
    \A v \in 1..MaxVer : tp.fire[v] = "send" => (tm.mu = <<"fire", v>> /\ tm.c = <<>>)

\* ---- C22 ----
\* the fire task of version v comes to its call of f in this step
ComesToCall(v) == tp.fire[v] # "call" /\ tp'.fire[v] = "call"

\* the f of version v is inside a stop or reset call on its timer
InFCall(v) == FTask(v) \in DOMAIN tp.call /\ tp.call[FTask(v)].pc # "idle"

\* C22: for a timer with f, the fire task has disarmed the timer and released
\* _mu when it comes to call f; a stop or reset that f makes on its own timer
\* returns under fair scheduling, and that reset is not refused as long as no
\* other task has re-armed the timer since this firing; c is the nil channel:
\* it never holds a value and nobody ever receives from it.
C22_TimerWithFunc ==
    /\ [](tm.f => (/\ tm.c = <<>>
                   /\ tm.mu[1] # "fire"
                   /\ \A k \in Callers : tp.call[k].op # "recv"))
    /\ [][\A v \in 1..MaxVer :
            /\ ComesToCall(v) => (tm'.dt = INFINITY /\ tm'.mu = Free)
            /\ (InFCall(v) /\ ResetReturns(FTask(v)) /\ tm.ver = v) =>
                    (tp'.call[FTask(v)].ret = "None" /\ Armed')]_vars
    /\ \A v \in 1..MaxCalls :
            InFCall(v) ~> (tp.call[FTask(v)].pc = "idle" /\ tp.call[FTask(v)].op # "")

\* the f of the first arming has reset the timer, and the f of that second
\* arming has stopped it (to no effect: the timer had expired)
C22_Witness ==
    /\ tm.f
    /\ tp.call[FTask(1)].op = "reset" /\ tp.call[FTask(1)].ret = "None"
    /\ tp.call[FTask(2)].op = "stop" /\ tp.call[FTask(2)].ret = "False"
    /\ tp.fire[1] = "called" /\ tp.fire[2] = "called"

\* ---- C23 ----
\* task t is at a point where it acquires a channel mutex: ch._mu.acquire() in
\* send, recv_, close and in both passes of select, `with ch._mu` in dequeAll
AcquiresChan(t) ==
    pc[t] \in {"send_acq", "recv_acq", "close_acq", "sel1", "sel2", "dequeAll"}

HeldChans(t)  == {c \in Chans : mu[c] = t}
HeldGroups(t) == {g \in Tasks : gmu[g] = t}

\* C23: a task that is about to acquire a channel mutex holds no group mutex
\* (and no other channel mutex); a group mutex is held across steps only by a
\* select on its own group, either under the mutex of the channel of the case
\* it is trying, or while it waits in selected() holding no channel mutex; a
\* task taking a group mutex in try_to_win holds the mutex of the channel
\* whose queue it pops, and no other.
C23_LockOrder ==
    \A t \in Tasks :
        /\ AcquiresChan(t) => (HeldGroups(t) = {} /\ HeldChans(t) = {})
        /\ Cardinality(HeldChans(t)) <= 1
        /\ HeldGroups(t) \subseteq {t}
        /\ (gmu[t] = t) =>
              \/ pc[t] = "deq" /\ loc[t].call = "sel2"
              \/ pc[t] = "sel_wait" /\ loc[t].holdg /\ HeldChans(t) = {}
        /\ (pc[t] = "deq") => HeldChans(t) = {loc[t].ch}
        /\ (pc[t] = "idle") => (HeldGroups(t) = {} /\ HeldChans(t) = {})

\* a select in its second pass, under ch._mu and its own g._mu, is about to
\* take the mutex of another select's group, which that select holds itself
C23_Witness ==
    \E t \in Tasks :
        /\ pc[t] = "deq" /\ gmu[t] = t /\ mu[loc[t].ch] = t
        /\ gmu[popleft(DeqQueue(St, t)).w.g] \notin {NoTask, t}

\* ---- C24 ----
\* the waiters of the group of task t in a queue, and those of the other groups
Own(queue, t)    == SelectSeq(queue, LAMBDA x : x.g = t)
Others(queue, t) == SelectSeq(queue, LAMBDA x : x.g # t)

NoneQueued(t) ==
    \A ch \in Chans : Own(sendq[ch], t) = <<>> /\ Own(recvq[ch], t) = <<>>

\* the select of task t returns or panics in this step
SelectReturns(t) == loc[t].kind = "select" /\ pc[t] # "idle" /\ pc'[t] = "idle"

\* C24: when a select returns or panics, no waiter of its group is left in a
\* queue of any channel (nor is one while the task is between operations), and
\* each step of its cleanup leaves the waiters of the other groups in every
\* queue in place and in order.
C24_SelectCleansUp ==
    /\ [](\A t \in Tasks : pc[t] = "idle" => NoneQueued(t))
    /\ [][\A t \in Tasks :
            /\ SelectReturns(t) => NoneQueued(t)'
            /\ (pc[t] = "dequeAll" /\ Stepped(t)) =>
                  \A ch \in Chans :
                      /\ Others(sendq'[ch], t) = Others(sendq[ch], t)
                      /\ Others(recvq'[ch], t) = Others(recvq[ch], t)
                      /\ Len(sendq'[ch]) <= Len(sendq[ch])
                      /\ Len(recvq'[ch]) <= Len(recvq[ch])]_vars

\* a select has ended in a panic after it had queued a waiter, and the waiter
\* of another group is still parked in a queue
C24_Witness ==
    \E t \in Tasks :
        /\ pc[t] = "idle" /\ hist[t] # <<>>
        /\ Last(hist[t]).kind = "select" /\ Last(hist[t]).st = "panic"
        /\ \E ch \in Chans : Others(sendq[ch] \o recvq[ch], t) # <<>>

\* ---- C25 ----
\* the wait group of the operation of task t exists: it was created when the
\* operation found nothing ready, and lives until the operation returns
GroupLives(t) ==
    \/ pc[t] \in {"send_wait", "recv_wait", "sel2", "sel_wait", "dequeAll"}
    \/ pc[t] = "deq" /\ loc[t].call = "sel2"

\* g.which is one of the waiters registered in the group
WhichIsWaiter(t) == which[t] \in 1..Len(waitv[t])

\* the semaphore of the group of t is released in this step
Released(t) == sema'[t] > sema[t]

\* C25: the winner of a wait group, once set, never changes as long as the
\* group lives (`which` is unset again only when the task, in a later
\* operation, makes a fresh group); the semaphore of a group is released at most once, in a step
\* after which `which` is the woken waiter (assert self.which is not None in
\* wakeup), and only that waiter's slots are written; a send or recv_ that
\* passes g.wait() finds g.which is me, a select finds one of its waiters.
C25_WinnerSetOnce ==
    /\ [](\A t \in Tasks :
            /\ sema[t] \in {0, 1}
            /\ (GroupLives(t) /\ sema[t] = 1) => WhichIsWaiter(t)
            /\ (pc[t] \in {"send_wait", "recv_wait"} /\ sema[t] = 1) => which[t] = 1)
    /\ [][\A t \in Tasks :
            /\ (GroupLives(t) /\ GroupLives(t)' /\ which[t] # None) => which'[t] = which[t]
            /\ (which'[t] # which[t] /\ which[t] # None) =>
                  (which'[t] = None /\ ~GroupLives(t) /\ Stepped(t))
            /\ Released(t) =>
                  /\ sema[t] = 0 /\ WhichIsWaiter(t)' /\ GroupLives(t)
                  /\ \A k \in 1..Len(waitv[t]) :
                        k # which'[t] => waitv'[t][k] = waitv[t][k]]_vars

\* a select was woken through one of its two queued waiters, while the other
\* one was popped by a peer that could not win it any more
C25_Witness ==
    \E t \in Tasks :
        /\ pc[t] = "sel_wait" /\ sema[t] = 1 /\ Len(waitv[t]) = 2
        /\ \A ch \in Chans : Own(sendq[ch], t) = <<>> /\ Own(recvq[ch], t) = <<>>

\* ---- C26 ----
\* task t is at the acquisition of a mutex of the runtime: ch._mu at the start
\* of an operation, of a select pass or of dequeAll; the g._mu of a popped
\* waiter's group in try_to_win
WantsMutex(t) == AcquiresChan(t) \/ pc[t] = "deq"

\* C26: under fair scheduling, every task that is about to acquire a channel
\* mutex or a group mutex acquires it.
C26_MutexesAcquired ==
    \A t \in Tasks : WantsMutex(t) ~> ~WantsMutex(t)

\* ---- C27 ----
\* the select of task t has found nothing ready in its first pass
Subscribing(t) == loc[t].kind = "select" /\ pc[t] = "sel2"

\* the select of task t is parked in g.wait(), holding no mutex, or is over
ParkedOrDone(t) ==
    /\ pc[t] \in {"sel_wait", "dequeAll", "idle"}
    /\ pc[t] = "sel_wait" => (HeldChans(t) = {} /\ HeldGroups(t) = {} /\ gmu[t] # t)

\* C27: a select with a send and a recv case on the same channel that found
\* nothing ready never takes its own queued waiter for a peer, and under fair
\* scheduling it parks holding neither the channel mutex nor its group mutex,
\* or completes with a peer.
C27_SameChannelSelect ==
    /\ [](\A t \in Tasks : pc[t] = "deq" => popleft(DeqQueue(St, t)).w.g # t)
    /\ \A t \in Tasks : Subscribing(t) ~> ParkedOrDone(t)

====
